---- MODULE Spec2Model ----
(***************************************************************************)
(* A model of the parameter-shaping wrappers of vs-jetpack: the backend    *)
(* selection of BlurMatrixBase.__call__, the parameter validation of       *)
(* limit_filter, the per-member attributes of the LimitFilterMode and      *)
(* DescaleMode enums, the step order and thresholding of                   *)
(* EdgeDetect.get_mask and the shift handling of NoShiftBase.scale; the    *)
(* kernels of BlurMatrix, the temporal expression of the akarin averaging  *)
(* branch, the direct conversions of the Resample classes, the records of  *)
(* DescaleAttempt.from_args, the smoothing filter and the merge expression *)
(* of SSIM.scale, the matrices of the MatrixEdgeDetect operators, the      *)
(* attempts of GenericScaler.scale and get_mask on a shared FreyChen.      *)
(*                                                                         *)
(* The host (the frame-processing engine) is not modelled: a host call is  *)
(* recorded by its name and its normalised arguments, a clip by the        *)
(* properties the wrappers read (sample type, bit depth, size) and, where  *)
(* a per-pixel function is applied, by the value of one pixel.             *)
(*                                                                         *)
(* Each component is one "call" state machine: an action is one call of    *)
(* the operation with inputs drawn from small sets, and the state keeps    *)
(* the inputs and the outcome of the last call together with whatever the  *)
(* program keeps between calls (attributes stored on enum members).        *)
(***************************************************************************)
EXTENDS Integers, Sequences, FiniteSets, TLC

VARIABLES blur, lfmAttr, limit, edge, scaler, dmThr, dmUse, bmat, akarin, color, attempts, ssim, medge, gscaler, frey

vars == <<blur, lfmAttr, limit, edge, scaler, dmThr, dmUse, bmat, akarin, color, attempts, ssim, medge, gscaler, frey>>

\* An optional value: None, or Some(v) holding v.
None == <<>>
Some(v) == <<v>>
Val(o) == o[1]

(***************************************************************************)
(* vsrgtools/enum.py: BlurMatrixBase.__call__                              *)
(***************************************************************************)

\* Largest matrix length (number of coefficients) tried.
MaxLen == 33

\* Largest number of passes tried.
MaxPasses == 2

\* std.Convolution is limited to 25 numbers (enum.py:208,211).
ConvolutionMaxLen == 25

\* std.AverageFrames takes at most 31 weights (enum.py:221).
AverageFramesMaxLen == 31

\* The members of vstools' ConvMode.
ConvModes == {"SQUARE", "VERTICAL", "HORIZONTAL", "HV", "TEMPORAL"}

\* ConvMode.is_spatial: every mode but TEMPORAL.
is_spatial(mode) == mode \in {"SQUARE", "VERTICAL", "HORIZONTAL", "HV"}

\* The keyword arguments a caller may put in **conv_kwargs (their names).
ConvKwargKeys == {"scenechange", "premultiply"}

\* The sample formats of a clip: <<sample type, bits per sample>>.
ClipFormats == {<<"INTEGER", 8>>, <<"INTEGER", 16>>, <<"FLOAT", 16>>, <<"FLOAT", 32>>}

\* bias: None, 0 or a non-zero number.
BiasValues == {None, Some(0), Some(1)}

\* fp16 = clip.format.sample_type == vs.FLOAT and bits_per_sample == 16
fp16_of(fmt) == fmt[1] = "FLOAT" /\ fmt[2] = 16

\* The guard of the std.Convolution branch of a spatial mode.
UseConvolutionMutSquare(len, mode, fp16) == len <= ConvolutionMaxLen /\ ~fp16

UseConvolution(len, mode, fp16) ==
    len <= ConvolutionMaxLen /\ mode # "SQUARE" /\ ~fp16

\* The guard of the std.AverageFrames branch of a temporal mode.
UseAverageFramesMutBias(len, fp16, bias, saturate, kwkeys) ==
    /\ ~fp16
    /\ len <= AverageFramesMaxLen
    /\ saturate
    /\ (Cardinality(kwkeys) = 0 \/ (Cardinality(kwkeys) = 1 /\ "scenechange" \in kwkeys))

UseAverageFrames(len, fp16, bias, saturate, kwkeys) ==
    /\ ~fp16
    /\ len <= AverageFramesMaxLen
    /\ (bias = None \/ Val(bias) = 0)
    /\ saturate
    /\ (Cardinality(kwkeys) = 0 \/ (Cardinality(kwkeys) = 1 /\ "scenechange" \in kwkeys))

\* The backend BlurMatrixBase.__call__ hands the clip to; "clip" is the early
\* return of the unprocessed clip for a matrix of at most one coefficient.
BlurMatrixBase_call(len, mode, fmt, bias, saturate, kwkeys) ==
    IF len <= 1 THEN "clip"
    ELSE IF is_spatial(mode)
         THEN IF UseConvolution(len, mode, fp16_of(fmt))
              THEN "std.Convolution"
              ELSE "ExprOp.convolution"
         ELSE IF UseAverageFrames(len, fp16_of(fmt), bias, saturate, kwkeys)
              THEN "std.AverageFrames"
              ELSE "_averageframes_akarin"

\* The backend invocations of one call: iterate() applies the chosen backend
\* `passes` times; _averageframes_akarin iterates inside itself.
BlurInvocations(backend, passes) ==
    IF backend = "clip" THEN <<>>
    ELSE IF backend = "_averageframes_akarin" THEN <<backend>>
    ELSE [i \in 1..passes |-> backend]

BlurIdle ==
    [called |-> FALSE, len |-> 0, mode |-> "SQUARE", fmt |-> <<"INTEGER", 8>>,
     bias |-> None, saturate |-> TRUE, kwkeys |-> {}, passes |-> 1,
     backend |-> "clip", invoked |-> <<>>]

\* matrix(clip, bias=.., saturate=.., passes=.., **conv_kwargs)
BlurCall ==
    /\ ~blur.called
    /\ \E len \in 0..MaxLen, mode \in ConvModes, fmt \in ClipFormats,
       bias \in BiasValues, saturate \in BOOLEAN, kwkeys \in SUBSET ConvKwargKeys,
       passes \in 1..MaxPasses :
        /\ blur' = [called |-> TRUE, len |-> len, mode |-> mode, fmt |-> fmt,
                    bias |-> bias, saturate |-> saturate, kwkeys |-> kwkeys,
                    passes |-> passes,
                    backend |-> BlurMatrixBase_call(len, mode, fmt, bias, saturate, kwkeys),
                    invoked |-> BlurInvocations(
                        BlurMatrixBase_call(len, mode, fmt, bias, saturate, kwkeys), passes)]
        /\ UNCHANGED <<lfmAttr, limit, edge, scaler, dmThr, dmUse, bmat, akarin, color, attempts, ssim, medge, gscaler, frey>>

\* The call has returned: its parameter record is discarded.
BlurReturn ==
    /\ blur.called
    /\ blur' = BlurIdle
    /\ UNCHANGED <<lfmAttr, limit, edge, scaler, dmThr, dmUse, bmat, akarin, color, attempts, ssim, medge, gscaler, frey>>

(***************************************************************************)
(* vsrgtools/enum.py: LimitFilterMode; vsrgtools/limit.py: limit_filter    *)
(***************************************************************************)

\* The members of LimitFilterMode.
LimitFilterModes ==
    {"SIMPLE_MIN", "SIMPLE_MAX", "SIMPLE2_MIN", "SIMPLE2_MAX", "DIFF_MIN", "DIFF_MAX",
     "CLAMPING"}

\* The members on which the model calls LimitFilterMode.__call__.
CalledLimitFilterModes == {"CLAMPING", "SIMPLE_MIN"}

\* An instance attribute that was never assigned.
Unset == None

\* LimitFilterModeMeta.force_expr, the class attribute.
LimitFilterModeMetaForceExpr == TRUE

\* mode.force_expr: the member's own attribute when one was assigned, the class
\* attribute of LimitFilterModeMeta otherwise.
ForceExprOf(attrs, m) ==
    IF attrs[m] = Unset THEN LimitFilterModeMetaForceExpr ELSE Val(attrs[m])

\* LimitFilterMode.__call__(force_expr): self.force_expr = force_expr; return self.
\* The member is the enum's one object of that name, so the assignment stays.
LimitFilterMode_call(attrs, m, force_expr) == [attrs EXCEPT ![m] = Some(force_expr)]

\* The mode argument as the caller writes it: the bare member ("bare"), or the
\* member called with force_expr (Some(TRUE) / Some(FALSE)), which runs __call__
\* first.
Bare == None
ModeArgForms == {Bare, Some(TRUE), Some(FALSE)}

AttrsAfterArg(attrs, m, form) ==
    IF form = Bare THEN attrs ELSE LimitFilterMode_call(attrs, m, Val(form))

ThrValues == {-1, 0, 1, 128, 255}
\* The second element of a thr tuple; None when thr is a plain int.
ThrcValues == {None, Some(-1), Some(0), Some(1), Some(255)}
BrightThrValues == {None, Some(-1), Some(0), Some(128), Some(255)}
ElastValues == {0, 1, 2}
ColorFamilies == {"YUV", "RGB", "GRAY"}
LimitClipFormats == {<<"INTEGER", 8>>, <<"FLOAT", 32>>}
RefValues == {None, Some("ref")}

\* if isinstance(thr, tuple): thr, thrc = thr  else: thrc = thr
ThrcOf(thr, thrc) == IF thrc = None THEN thr ELSE Val(thrc)

\* if bright_thr is None: bright_thr = thr
BrightThrOf(thr, bright_thr) == IF bright_thr = None THEN thr ELSE Val(bright_thr)

NoError == "none"

\* The first of thr, thrc, bright_thr, elast below its lower limit; NoError
\* when all four pass.
InvalidParam(thr, thrc, bright_thr, elast) ==
    IF thr < 0 THEN "thr"
    ELSE IF thrc < 0 THEN "thrc"
    ELSE IF bright_thr < 0 THEN "bright_thr"
    ELSE IF elast < 1 THEN "elast"
    ELSE NoError

\* if ref is None and mode != LimitFilterMode.CLAMPING: raise ValueError
RefMissingMutEq(ref, mode) == ref = None /\ mode = "CLAMPING"

RefMissing(ref, mode) == ref = None /\ mode # "CLAMPING"

\* The planes normalise_planes gives for planes=None: every plane of the clip.
normalise_planes(family) == IF family = "GRAY" THEN {0} ELSE {0, 1, 2}

\* get_peak_value of a clip.
get_peak_value(fmt) == IF fmt[1] = "FLOAT" THEN 1 ELSE 2 ^ fmt[2] - 1

\* _limit_filter_lut: a blank neutral clip when both scaled thresholds reach
\* peak / 2, a Lut otherwise.
limit_filter_lut(peak, thr, largen_thr, planes, allPlanes) ==
    IF 2 * ((thr * peak) \div 255) >= peak /\ 2 * ((largen_thr * peak) \div 255) >= peak
    THEN IF planes = allPlanes THEN <<"std.BlankClip">>
         ELSE <<"std.BlankClip", "std.ShufflePlanes">>
    ELSE <<"std.Lut">>

\* limit_filter from line 48 on, the parameters having passed the checks.
limit_filter_body(attrs, fmt, family, ref, mode, thr, thrc, bright_thr, elast) ==
    LET read == ForceExprOf(attrs, mode)
        force_expr ==
            IF \/ ref # None
               \/ fmt[1] = "FLOAT"
               \/ thr >= 128
               \/ bright_thr >= 128
               \/ mode # "CLAMPING"
            THEN TRUE ELSE read
        is_yuv == family = "YUV"
        planes == normalise_planes(family)
        base == [error |-> NoError, read |-> Some(read), force_expr |-> Some(force_expr)]
    IN  IF thr <= 0 /\ bright_thr <= 0 /\ (~is_yuv \/ thrc <= 0)
        THEN base @@ [result |-> "src", hostCalls |-> <<>>]
        ELSE IF thr >= 255 /\ bright_thr >= 255 /\ (~is_yuv \/ thrc >= 255)
        THEN base @@ [result |-> "flt", hostCalls |-> <<>>]
        ELSE IF force_expr
        THEN base @@ [result |-> "expr", hostCalls |-> <<"expr_func">>]
        ELSE base @@
             [result |-> "lut",
              hostCalls |->
                <<"std.MakeDiff">>
                \o limit_filter_lut(get_peak_value(fmt), thr, bright_thr, {0}, planes)
                \o (IF 1 \in planes \/ 2 \in planes
                    THEN limit_filter_lut(get_peak_value(fmt), thrc, thrc, planes \ {0}, planes)
                    ELSE <<>>)
                \o <<"std.MakeDiff">>]

\* limit_filter(flt, src, ref, mode, planes=None, thr, elast, bright_thr): the
\* outcome of the call. thr, thrc and bright_thr are the values after lines 31-37.
limit_filter_MutLate(attrs, fmt, family, ref, mode, thr, thrc, bright_thr, elast) ==
    LET raised == [read |-> None, force_expr |-> None, result |-> "ValueError",
                   hostCalls |-> <<>>]
        body == limit_filter_body(attrs, fmt, family, ref, mode, thr, thrc, bright_thr,
                                elast)
    IN  IF RefMissing(ref, mode)
        THEN raised @@ [error |-> "ref"]
        ELSE IF body.result \in {"src", "flt"}
        THEN body
        ELSE IF InvalidParam(thr, thrc, bright_thr, elast) # NoError
        THEN raised @@ [error |-> InvalidParam(thr, thrc, bright_thr, elast)]
        ELSE body

limit_filter(attrs, fmt, family, ref, mode, thr, thrc, bright_thr, elast) ==
    LET raised == [read |-> None, force_expr |-> None, result |-> "ValueError",
                   hostCalls |-> <<>>]
    IN  IF InvalidParam(thr, thrc, bright_thr, elast) # NoError
        THEN raised @@ [error |-> InvalidParam(thr, thrc, bright_thr, elast)]
        ELSE IF RefMissing(ref, mode)
        THEN raised @@ [error |-> "ref"]
        ELSE limit_filter_body(attrs, fmt, family, ref, mode, thr, thrc, bright_thr, elast)

LfmAttrInit == [m \in LimitFilterModes |-> Unset]

LimitIdle ==
    [called |-> FALSE, fmt |-> <<"INTEGER", 8>>, family |-> "YUV", ref |-> None,
     mode |-> "CLAMPING", form |-> Bare, thr |-> 1, thrc |-> 1, bright_thr |-> 1,
     elast |-> 2, error |-> NoError, read |-> None, force_expr |-> None,
     result |-> "idle", hostCalls |-> <<>>]

\* A statement LimitFilterMode.X(force_expr) on its own.
LimitFilterModeUse ==
    /\ ~limit.called
    /\ \E m \in CalledLimitFilterModes, force_expr \in BOOLEAN :
        /\ lfmAttr' = LimitFilterMode_call(lfmAttr, m, force_expr)
        /\ UNCHANGED <<blur, limit, edge, scaler, dmThr, dmUse, bmat, akarin, color, attempts, ssim, medge, gscaler, frey>>

\* limit_filter(flt, src, ref, mode, thr=.., elast=.., bright_thr=..): the mode
\* argument is evaluated first (a called member runs __call__), then the body.
LimitFilterCall ==
    /\ ~limit.called
    /\ \E fmt \in LimitClipFormats, family \in ColorFamilies, ref \in RefValues,
       mode \in LimitFilterModes, form \in ModeArgForms,
       thr0 \in ThrValues, thrc0 \in ThrcValues, bright0 \in BrightThrValues,
       elast \in ElastValues :
        LET thr == thr0
            thrc == ThrcOf(thr0, thrc0)
            bright_thr == BrightThrOf(thr0, bright0)
            attrs == AttrsAfterArg(lfmAttr, mode, form)
        IN  /\ form # Bare => mode \in CalledLimitFilterModes
            /\ lfmAttr' = attrs
            /\ limit' =
                 [called |-> TRUE, fmt |-> fmt, family |-> family, ref |-> ref,
                  mode |-> mode, form |-> form, thr |-> thr, thrc |-> thrc,
                  bright_thr |-> bright_thr, elast |-> elast]
                 @@ limit_filter(attrs, fmt, family, ref, mode, thr, thrc,
                                       bright_thr, elast)
            /\ UNCHANGED <<blur, edge, scaler, dmThr, dmUse, bmat, akarin, color, attempts, ssim, medge, gscaler, frey>>

\* The call has returned: its parameter record is discarded; what was assigned
\* to the members stays.
LimitFilterReturn ==
    /\ limit.called
    /\ limit' = LimitIdle
    /\ UNCHANGED <<blur, lfmAttr, edge, scaler, dmThr, dmUse, bmat, akarin, color, attempts, ssim, medge, gscaler, frey>>

(***************************************************************************)
(* vsmask/edge.py: EdgeDetect.get_mask                                     *)
(***************************************************************************)

\* Numbers that need not be integers are fractions <<numerator, denominator>>
\* with a positive denominator.
Int2R(n) == <<n, 1>>
RMul(a, b) == <<a[1] * b[1], a[2] * b[2]>>
RLess(a, b) == a[1] * b[2] < b[1] * a[2]
RLeq(a, b) == a[1] * b[2] <= b[1] * a[2]
REq(a, b) == a[1] * b[2] = b[1] * a[2]
RMin(a, b) == IF RLess(b, a) THEN b ELSE a
RMax(a, b) == IF RLess(a, b) THEN b ELSE a

\* Python's round() of a non-negative fraction: to the nearest integer, a tie
\* to the even one.
Round(a) ==
    LET q == a[1] \div a[2]
        r == a[1] % a[2]
    IN  IF 2 * r < a[2] THEN q
        ELSE IF 2 * r > a[2] THEN q + 1
        ELSE IF q % 2 = 0 THEN q ELSE q + 1

\* Float pixel values tried are k / 4 for k in 0 .. MaxFloatQuarters.
MaxFloatQuarters == 6

\* The formats of the clip given to get_mask; None is a variable-format clip.
EdgeClipFormats == {None, <<"INTEGER", 8>>, <<"INTEGER", 10>>, <<"FLOAT", 32>>}

is_float(fmt) == fmt[1] = "FLOAT"

\* peak = 1.0 if is_float else (1 << self._bits) - 1
EdgePeak(fmt) == IF is_float(fmt) THEN 1 ELSE 2 ^ fmt[2] - 1

\* The values a pixel of the postprocessed mask may have.
EdgePixels(fmt) ==
    IF fmt = None THEN {Int2R(0)}
    ELSE IF is_float(fmt) THEN {<<k, 4>> : k \in 0..MaxFloatQuarters}
    ELSE {Int2R(k) : k \in 0..EdgePeak(fmt)}

LthrValues(fmt) ==
    IF fmt # None /\ is_float(fmt) THEN {Int2R(0), <<1, 4>>, <<3, 4>>}
    ELSE {Int2R(0), Int2R(50), Int2R(200)}

HthrValues(fmt) ==
    IF fmt # None /\ is_float(fmt) THEN {None, Some(<<1, 2>>), Some(Int2R(1))}
    ELSE {None, Some(Int2R(100)), Some(Int2R(255))}

MultiValues == {Int2R(1), Int2R(2), <<1, 2>>, <<3, 2>>, Int2R(-1)}

\* hthr = peak if hthr is None else hthr
HthrOf(hthr, peak) == IF hthr = None THEN Int2R(peak) ELSE Val(hthr)

\* lut=lambda x: round(max(min(x * multi, peak), 0))
MultiplyLut(x, multi, peak) ==
    Int2R(Round(RMax(RMin(RMul(x, multi), Int2R(peak)), Int2R(0))))

\* expr=f'x {multi} *'
MultiplyExpr(x, multi) == RMul(x, multi)

\* lut=lambda x: peak if x > hthr else 0 if x <= lthr else x
ThresholdLut(x, lthr, hthr, peak) ==
    IF RLess(hthr, x) THEN Int2R(peak)
    ELSE IF RLeq(x, lthr) THEN Int2R(0)
    ELSE x

\* expr=f'x {hthr} > {peak} x {lthr} <= 0 x ? ?'
ThresholdExpr(x, lthr, hthr, peak) ==
    IF RLess(hthr, x) THEN Int2R(peak)
    ELSE IF RLeq(x, lthr) THEN Int2R(0)
    ELSE x

\* if multi != 1
MultiplyRuns(multi) == ~REq(multi, Int2R(1))

\* if lthr > 0 or hthr < peak
ThresholdRuns(lthr, hthr, peak) == RLess(Int2R(0), lthr) \/ RLess(hthr, Int2R(peak))

\* get_mask after the format check: x is the pixel _postprocess returned. The
\* result holds the steps in the order they ran, the pixel after the multiply
\* step (x itself when the step is skipped) and the returned pixel.
get_mask_MutOrder(fmt, lthr, hthr0, multi, x) ==
    LET peak == EdgePeak(fmt)
        hthr == HthrOf(hthr0, peak)
        thr == IF ~ThresholdRuns(lthr, hthr, peak) THEN x
               ELSE IF is_float(fmt) THEN ThresholdExpr(x, lthr, hthr, peak)
               ELSE ThresholdLut(x, lthr, hthr, peak)
        out == IF ~MultiplyRuns(multi) THEN thr
               ELSE IF is_float(fmt) THEN MultiplyExpr(thr, multi)
               ELSE MultiplyLut(thr, multi, peak)
    IN  [steps |-> <<"_preprocess", "_compute_mask", "_postprocess">>
                   \o (IF ThresholdRuns(lthr, hthr, peak) THEN <<"threshold">> ELSE <<>>)
                   \o (IF MultiplyRuns(multi) THEN <<"multiply">> ELSE <<>>),
         mul |-> IF MultiplyRuns(multi)
                 THEN (IF is_float(fmt) THEN MultiplyExpr(x, multi)
                       ELSE MultiplyLut(x, multi, peak))
                 ELSE x,
         out |-> out]

get_mask(fmt, lthr, hthr0, multi, x) ==
    LET peak == EdgePeak(fmt)
        hthr == HthrOf(hthr0, peak)
        mul == IF ~MultiplyRuns(multi) THEN x
               ELSE IF is_float(fmt) THEN MultiplyExpr(x, multi)
               ELSE MultiplyLut(x, multi, peak)
        out == IF ~ThresholdRuns(lthr, hthr, peak) THEN mul
               ELSE IF is_float(fmt) THEN ThresholdExpr(mul, lthr, hthr, peak)
               ELSE ThresholdLut(mul, lthr, hthr, peak)
    IN  [steps |-> <<"_preprocess", "_compute_mask", "_postprocess">>
                   \o (IF MultiplyRuns(multi) THEN <<"multiply">> ELSE <<>>)
                   \o (IF ThresholdRuns(lthr, hthr, peak) THEN <<"threshold">> ELSE <<>>),
         mul |-> mul,
         out |-> out]

EdgeIdle ==
    [called |-> FALSE, fmt |-> None, lthr |-> Int2R(0), hthr |-> None,
     multi |-> Int2R(1), x |-> Int2R(0), selfBits |-> None, result |-> "idle",
     steps |-> <<>>, mul |-> Int2R(0), out |-> Int2R(0)]

\* detector.get_mask(clip, lthr, hthr, multi)
GetMaskCall ==
    /\ ~edge.called
    /\ \E fmt \in EdgeClipFormats :
      \E lthr \in LthrValues(fmt), hthr \in HthrValues(fmt), multi \in MultiValues,
         x \in EdgePixels(fmt) :
        /\ edge' =
             [called |-> TRUE, fmt |-> fmt, lthr |-> lthr, hthr |-> hthr,
              multi |-> multi, x |-> x]
             @@ (IF fmt = None
                 THEN [selfBits |-> edge.selfBits, result |-> "ValueError",
                       steps |-> <<>>, mul |-> x, out |-> x]
                 ELSE [selfBits |-> Some(fmt[2]), result |-> "mask"]
                      @@ get_mask(fmt, lthr, hthr, multi, x))
        /\ UNCHANGED <<blur, lfmAttr, limit, scaler, dmThr, dmUse, bmat, akarin, color, attempts, ssim, medge, gscaler, frey>>

\* The call has returned: its parameter record is discarded; the detector keeps
\* self._bits.
GetMaskReturn ==
    /\ edge.called
    /\ edge' = [EdgeIdle EXCEPT !.selfBits = edge.selfBits]
    /\ UNCHANGED <<blur, lfmAttr, limit, scaler, dmThr, dmUse, bmat, akarin, color, attempts, ssim, medge, gscaler, frey>>

(***************************************************************************)
(* vskernels/util.py: NoShiftBase.scale                                    *)
(***************************************************************************)

\* Largest clip and target dimension tried.
MaxDim == 2

\* The shifts a caller passes, in half pixels: <<top, left>>.
Shifts == {<<0, 0>>, <<1, 0>>, <<0, 1>>, <<-1, 1>>}

\* What the kernel's own scale does with the call it is given: it returns a
\* scaled clip, or raises an Exception, or raises a BaseException that is no
\* Exception (KeyboardInterrupt, SystemExit).
HostOutcomes == {"ok", "Exception", "BaseException"}

\* The arguments NoShiftBase.scale passes to super().scale.
KernelScaleArgs(clip, width, height, shift) ==
    [width |-> clip[1], height |-> clip[2], shift |-> shift]

\* try: return super().scale(...)  except Exception: return clip
NoShiftBase_scale(host) ==
    IF host = "ok" THEN "scaled"
    ELSE IF host = "Exception" THEN "clip"
    ELSE "raised"

ScalerIdle ==
    [called |-> FALSE, clip |-> <<1, 1>>, width |-> 1, height |-> 1,
     shift |-> <<0, 0>>, host |-> "ok",
     kernelArgs |-> [width |-> 1, height |-> 1, shift |-> <<0, 0>>],
     result |-> "idle"]

\* NoShift.scale(clip, width, height, shift)
NoShiftScale ==
    /\ ~scaler.called
    /\ \E cw \in 1..MaxDim, ch \in 1..MaxDim, width \in 1..MaxDim, height \in 1..MaxDim,
       shift \in Shifts, host \in HostOutcomes :
        /\ scaler' =
             [called |-> TRUE, clip |-> <<cw, ch>>, width |-> width, height |-> height,
              shift |-> shift, host |-> host,
              kernelArgs |-> KernelScaleArgs(<<cw, ch>>, width, height, shift),
              result |-> NoShiftBase_scale(host)]
        /\ UNCHANGED <<blur, lfmAttr, limit, edge, dmThr, dmUse, bmat, akarin, color, attempts, ssim, medge, gscaler, frey>>

\* The call has returned: its parameter record is discarded.
NoShiftScaleReturn ==
    /\ scaler.called
    /\ scaler' = ScalerIdle
    /\ UNCHANGED <<blur, lfmAttr, limit, edge, dmThr, dmUse, bmat, akarin, color, attempts, ssim, medge, gscaler, frey>>

(***************************************************************************)
(* vsscale/types.py: DescaleMode                                           *)
(***************************************************************************)

\* The members of DescaleMode.
DescaleModes ==
    {"PlaneAverage", "PlaneAverageMax", "PlaneAverageMin", "KernelDiff",
     "KernelDiffMax", "KernelDiffMin"}

\* DescaleModeMeta.thr's default, 5e-8, in units of 1e-8.
DescaleModeMetaThr == 5

\* Largest thr a caller passes, in units of 1e-8.
MaxDescaleThr == 6

\* DescaleMode.__call__(thr): self.thr = thr; return self.
DescaleMode_call(attrs, m, thr) == [attrs EXCEPT ![m] = thr]

\* mode.thr
ThrOf(attrs, m) == attrs[m]

DmThrInit == [m \in DescaleModes |-> DescaleModeMetaThr]

DmUseIdle == [called |-> FALSE, mode |-> "PlaneAverage", form |-> Bare, read |-> 0]

\* A statement DescaleMode.X(thr) on its own.
DescaleModeUse ==
    /\ ~dmUse.called
    /\ \E m \in DescaleModes, thr \in {0, DescaleModeMetaThr, MaxDescaleThr} :
        /\ dmThr' = DescaleMode_call(dmThr, m, thr)
        /\ UNCHANGED <<blur, lfmAttr, limit, edge, scaler, dmUse, bmat, akarin, color, attempts, ssim, medge, gscaler, frey>>

\* A use that is given a mode, bare or called with thr, and reads mode.thr.
DescaleModeRead ==
    /\ ~dmUse.called
    /\ \E m \in DescaleModes, form \in {Bare, Some(0), Some(DescaleModeMetaThr), Some(MaxDescaleThr)} :
        LET attrs == IF form = Bare THEN dmThr ELSE DescaleMode_call(dmThr, m, Val(form))
        IN  /\ dmThr' = attrs
            /\ dmUse' = [called |-> TRUE, mode |-> m, form |-> form,
                         read |-> ThrOf(attrs, m)]
            /\ UNCHANGED <<blur, lfmAttr, limit, edge, scaler, bmat, akarin, color, attempts, ssim, medge, gscaler, frey>>

\* The use has ended: its record is discarded; what was assigned to the members
\* stays.
DescaleModeReadReturn ==
    /\ dmUse.called
    /\ dmUse' = DmUseIdle
    /\ UNCHANGED <<blur, lfmAttr, limit, edge, scaler, dmThr, bmat, akarin, color, attempts, ssim, medge, gscaler, frey>>

(***************************************************************************)
(* vsrgtools/enum.py: BlurMatrix.__call__ (BINOMIAL, GAUSS), from_radius,   *)
(* get_taps, BlurMatrixBase.outer                                          *)
(***************************************************************************)

\* Largest tap count tried.
MaxTaps == 4

\* Largest radius given to from_radius.
MaxRadius == 4

\* taps: None (the declared default) or an integer, negative ones included.
TapsValues == {None} \cup {Some(t) : t \in -1..MaxTaps}

\* sigma: the default 0.5 and values below, at and above it.
DefaultSigma == <<1, 2>>
SigmaValues == {<<-1, 1>>, <<0, 1>>, DefaultSigma, <<1, 1>>, <<3, 2>>}

RAdd(a, b) == <<a[1] * b[2] + b[1] * a[2], a[2] * b[2]>>
RAbs(a) == <<IF a[1] < 0 THEN -a[1] ELSE a[1], a[2]>>

\* math.ceil of a fraction.
Ceil(a) == -((-a[1]) \div a[2])

\* jetpytools.fallback: the value unless it is None.
fallback(value, fallback_value) == IF value = None THEN fallback_value ELSE Val(value)

\* sum() of a list of integers.
RECURSIVE SeqSum(_)
SeqSum(s) == IF s = <<>> THEN 0 ELSE Head(s) + SeqSum(Tail(s))

Reverse(s) == [i \in 1..Len(s) |-> s[Len(s) + 1 - i]]

\* BlurMatrixBase.outer: numpy.outer(self, self).flatten(), row by row; each
\* entry is kept as the pair of coefficients it is the product of.
outer(kernel) ==
    LET n == Len(kernel)
    IN  [i \in 1..(n * n) |-> <<kernel[((i - 1) \div n) + 1], kernel[((i - 1) % n) + 1]>>]

\* The products of numpy.outer for integer coefficients.
Products(pairs) == [i \in 1..Len(pairs) |-> pairs[i][1] * pairs[i][2]]

\* get_taps: the tap count derived from sigma when taps is None.
get_taps(sigma, taps) ==
    IF taps = None
    THEN Ceil(RAdd(RMul(RAbs(sigma), Int2R(8)), Int2R(1))) \div 2
    ELSE Val(taps)

\* c = c * (n - i) // i, taken one coefficient too far.
BinomialStepMut(c, n, i) == (c * (n - i - 1)) \div i

\* c = c * (n - i) // i
BinomialStep(c, n, i) == (c * (n - i)) \div i

\* for i in range(1, taps + 2): matrix.append(c); c = c * (n - i) // i
\* rems keeps the remainder of each integer division.
RECURSIVE BinomialLoop(_, _, _, _, _)
BinomialLoop(i, taps, n, c, acc) ==
    IF i > taps + 1 THEN acc
    ELSE BinomialLoop(i + 1, taps, n, BinomialStep(c, n, i),
                      [matrix |-> Append(acc.matrix, c),
                       rems |-> Append(acc.rems, (c * (n - i)) % i)])

\* case BlurMatrix.BINOMIAL, then kernel.outer() in SQUARE mode.
BlurMatrix_BINOMIAL(taps0, mode) ==
    LET taps == fallback(taps0, 1)
        loop == BinomialLoop(1, taps, taps * 2 + 1, 1, [matrix |-> <<>>, rems |-> <<>>])
        matrix == loop.matrix
        kernel == SubSeq(matrix, 1, Len(matrix) - 1) \o Reverse(matrix)
    IN  [error |-> NoError, taps |-> taps, rems |-> loop.rems,
         kernel |-> IF mode = "SQUARE" THEN Products(outer(kernel)) ELSE kernel]

\* A Gaussian coefficient is kept as the distance x it is computed for
\* (0: the centre, scale_value); a product of two as the pair of distances.
\* case BlurMatrix.GAUSS, then kernel.outer() in SQUARE mode.
BlurMatrix_GAUSS(taps0, sigma, mode) ==
    LET taps == get_taps(sigma, Some(fallback(taps0, 1)))
        mat == [x \in 1..taps |-> x]
        kernel == IF RLess(Int2R(0), sigma) THEN Reverse(mat) \o <<0>> \o mat ELSE <<0>>
    IN  IF taps < 0
        THEN [error |-> "CustomValueError", taps |-> taps, rems |-> <<>>, kernel |-> <<>>]
        ELSE [error |-> NoError, taps |-> taps, rems |-> <<>>,
              kernel |-> IF mode = "SQUARE" THEN outer(kernel) ELSE kernel]

BlurMatrix_call(member, taps0, sigma, mode) ==
    IF member = "BINOMIAL" THEN BlurMatrix_BINOMIAL(taps0, mode)
    ELSE BlurMatrix_GAUSS(taps0, sigma, mode)

\* from_radius: BlurMatrix.GAUSS(None, sigma=(radius + 1.0) / 3), mode left at HV.
from_radius(radius) == BlurMatrix_call("GAUSS", None, <<radius + 1, 3>>, "HV")

BMatIdle ==
    [called |-> FALSE, member |-> "GAUSS", via |-> "call", taps |-> None,
     sigma |-> DefaultSigma, radius |-> None, mode |-> "HV",
     out |-> [error |-> NoError, taps |-> 0, rems |-> <<>>, kernel |-> <<>>]]

\* BlurMatrix.BINOMIAL(taps, mode=..) or BlurMatrix.GAUSS(taps, sigma=.., mode=..)
BlurMatrixCall ==
    /\ ~bmat.called
    /\ \E member \in {"BINOMIAL", "GAUSS"}, taps \in TapsValues, mode \in ConvModes :
       \E sigma \in IF member = "GAUSS" THEN SigmaValues ELSE {DefaultSigma} :
        /\ bmat' = [called |-> TRUE, member |-> member, via |-> "call", taps |-> taps,
                    sigma |-> sigma, radius |-> None, mode |-> mode,
                    out |-> BlurMatrix_call(member, taps, sigma, mode)]
        /\ UNCHANGED <<blur, lfmAttr, limit, edge, scaler, dmThr, dmUse, akarin, color, attempts, ssim, medge, gscaler, frey>>

\* BlurMatrix.GAUSS.from_radius(radius)
FromRadiusCall ==
    /\ ~bmat.called
    /\ \E radius \in 0..MaxRadius :
        /\ bmat' = [called |-> TRUE, member |-> "GAUSS", via |-> "from_radius",
                    taps |-> None, sigma |-> <<radius + 1, 3>>, radius |-> Some(radius),
                    mode |-> "HV", out |-> from_radius(radius)]
        /\ UNCHANGED <<blur, lfmAttr, limit, edge, scaler, dmThr, dmUse, akarin, color, attempts, ssim, medge, gscaler, frey>>

\* The kernel has been returned (or the error raised).
BlurMatrixReturn ==
    /\ bmat.called
    /\ bmat' = BMatIdle
    /\ UNCHANGED <<blur, lfmAttr, limit, edge, scaler, dmThr, dmUse, akarin, color, attempts, ssim, medge, gscaler, frey>>

(***************************************************************************)
(* vsrgtools/enum.py: BlurMatrixBase._averageframes_akarin                  *)
(*                                                                         *)
(* The expression is built as the list of its tokens and evaluated, for    *)
(* one pixel position, by the stack machine of the host's expression       *)
(* filter: the clips are the frames at offsets -r .. r, numbered 1 .. 2r+1. *)
(***************************************************************************)

Var(i) == <<"var", i>>
Num(q) == <<"num", q>>
Prop(i, name) == <<"prop", i, name>>
Op(name) == <<"op", name>>
Store(k) == <<"store", k>>
Load(k) == <<"load", k>>

RECURSIVE Flatten(_)
Flatten(ss) == IF ss = <<>> THEN <<>> ELSE Head(ss) \o Flatten(Tail(ss))

Repeat(tok, n) == [i \in 1..n |-> tok]

\* a / b for b # 0, with a positive denominator.
RDiv(a, b) ==
    IF b[1] < 0 THEN <<-(a[1] * b[2]), -(a[2] * b[1])>> ELSE <<a[1] * b[2], a[2] * b[1]>>

\* A value is true in the expression filter when it is greater than 0.
RTrue(a) == a[1] > 0

\* The square root of a fraction, exact where the fraction is a square and
\* rounded down in its numerator otherwise.
ISqrt(n) == CHOOSE k \in 0..n : k * k <= n /\ n < (k + 1) * (k + 1)
RSqrt(a) == IF a[1] <= 0 \/ a[2] <= 0 THEN Int2R(0) ELSE <<ISqrt(a[1] * a[2]), a[2]>>

\* One step of the stack machine: the stack and the registers after token tok.
ExprStep(tok, stack, regs, env) ==
    LET n == Len(stack)
        push(v) == [stack |-> Append(stack, v), regs |-> regs]
        unary(v) == [stack |-> Append(SubSeq(stack, 1, n - 1), v), regs |-> regs]
        binary(v) == [stack |-> Append(SubSeq(stack, 1, n - 2), v), regs |-> regs]
        x == stack[n - 1]
        y == stack[n]
    IN  CASE tok[1] = "var" -> push(env.pix[tok[2]])
          [] tok[1] = "num" -> push(tok[2])
          [] tok[1] = "prop" ->
                push(IF tok[2] \in env.props[tok[3]] THEN Int2R(1) ELSE Int2R(0))
          [] tok[1] = "store" ->
                [stack |-> SubSeq(stack, 1, n - 1), regs |-> [regs EXCEPT ![tok[2]] = y]]
          [] tok[1] = "load" -> push(regs[tok[2]])
          [] tok[1] = "range" -> push(env.range[tok[2]])
          [] tok[2] = "DUP" -> push(y)
          [] tok[2] = "NOT" -> unary(IF RTrue(y) THEN Int2R(0) ELSE Int2R(1))
          [] tok[2] = "ABS" -> unary(RAbs(y))
          [] tok[2] = "MUL" -> binary(RMul(x, y))
          [] tok[2] = "ADD" -> binary(RAdd(x, y))
          [] tok[2] = "SUB" -> binary(RAdd(x, <<-y[1], y[2]>>))
          [] tok[2] = "LT" -> binary(IF RLess(x, y) THEN Int2R(1) ELSE Int2R(0))
          [] tok[2] = "SQRT" -> unary(RSqrt(y))
          [] tok[2] = "DIV" -> binary(RDiv(x, y))
          [] tok[2] = "MAX" -> binary(RMax(x, y))
          [] tok[2] = "MIN" -> binary(RMin(x, y))
          [] tok[2] = "TERN" ->
                [stack |-> Append(SubSeq(stack, 1, n - 3),
                                  IF RTrue(stack[n - 2]) THEN x ELSE y),
                 regs |-> regs]

\* The stack and the registers after tokens lo .. hi of expr, from state st.
\* The first half is run to its end (its stack is measured) before the
\* second half starts, so that the evaluation stays shallow.
RECURSIVE ExprRun(_, _, _, _, _)
ExprRun(expr, lo, hi, st, env) ==
    IF lo > hi THEN st
    ELSE IF lo = hi THEN ExprStep(expr[lo], st.stack, st.regs, env)
    ELSE LET mid == (lo + hi) \div 2
             left == ExprRun(expr, lo, mid, st, env)
         IN  IF Len(left.stack) >= 0 THEN ExprRun(expr, mid + 1, hi, left, env) ELSE left

ExprEval(expr, stack, regs, env) ==
    ExprRun(expr, 1, Len(expr), [stack |-> stack, regs |-> regs], env)

\* Lines 254-260 with the frame's own _SceneChangeNext left out.
BackTermMutOwn(self, r, i) ==
    <<Var(i + 1), Num(Int2R(self[i + 1])), Op("MUL")>>
    \o Flatten([d \in 1..(r - i - 1) |->
                   <<Prop(i + 1 + d, "_SceneChangeNext"), Op("NOT"), Op("MUL")>>])
    \o <<Op("DUP"), Store(i)>>

\* Lines 254-260: the previous frame with Python index i (clip i + 1).
BackTerm(self, r, i) ==
    <<Var(i + 1), Num(Int2R(self[i + 1])), Op("MUL")>>
    \o Flatten([d \in 1..(r - i) |->
                   <<Prop(i + d, "_SceneChangeNext"), Op("NOT"), Op("MUL")>>])
    \o <<Op("DUP"), Store(i)>>

\* Lines 262-272: the j-th of the next frames taken from the last one back.
ForwTerm(self, r, j) ==
    LET L == Len(self)
        nforw == L - r - 1
    IN  <<Var(L - j), Num(Int2R(self[L - j])), Op("MUL")>>
        \o Flatten([d \in 1..(nforw - j) |->
                       <<Prop(L - j - (d - 1), "_SceneChangePrev"), Op("NOT"), Op("MUL")>>])
        \o <<Op("DUP"), Store(L - j - 1)>>

\* Lines 276-282: the centre frame, the weights handed over to it, the sums.
CentreTerm(self, r) ==
    <<Var(r + 1), Num(Int2R(self[r + 1]))>>
    \o Flatten([k1 \in 1..Len(self) |->
                   IF k1 = r + 1 THEN <<>>
                   ELSE <<Load(k1 - 1), Num(Int2R(0)), Num(Int2R(self[k1])), Op("TERN")>>])
    \o Repeat(Op("ADD"), r * 2) \o <<Op("MUL")>> \o Repeat(Op("ADD"), r * 2)

\* Lines 244-282: the weighted sum.
AkarinSum(self) ==
    LET r == Len(self) \div 2
    IN  Flatten([i1 \in 1..r |-> BackTerm(self, r, i1 - 1)])
        \o Flatten([j1 \in 1..(Len(self) - r - 1) |-> ForwTerm(self, r, j1 - 1)])
        \o CentreTerm(self, r)

\* Python truthiness of an optional number.
Truthy(o) == o # None /\ Val(o) # 0

\* Lines 284-302 with the bias added after the absolute value.
AkarinTailMutOrder(self, kw) ==
    (IF Truthy(kw.premultiply) THEN <<Num(Int2R(Val(kw.premultiply))), Op("MUL")>> ELSE <<>>)
    \o (IF Truthy(kw.divisor) THEN <<Num(Int2R(Val(kw.divisor))), Op("DIV")>>
        ELSE <<Num(Int2R(SeqSum(self))), Op("DIV")>>)
    \o (IF ~kw.saturate THEN <<Op("ABS")>> ELSE <<>>)
    \o (IF Truthy(kw.bias) THEN <<Num(Int2R(Val(kw.bias))), Op("ADD")>> ELSE <<>>)
    \o (IF Truthy(kw.multiply) THEN <<Num(Int2R(Val(kw.multiply))), Op("MUL")>> ELSE <<>>)
    \o (IF kw.clamp THEN <<<<"range", "min">>, Op("MAX"), <<"range", "max">>, Op("MIN")>> ELSE <<>>)

\* Lines 284-302: premultiply, divide, bias, absolute value, multiply, clamp.
AkarinTail(self, kw) ==
    (IF Truthy(kw.premultiply) THEN <<Num(Int2R(Val(kw.premultiply))), Op("MUL")>> ELSE <<>>)
    \o (IF Truthy(kw.divisor) THEN <<Num(Int2R(Val(kw.divisor))), Op("DIV")>>
        ELSE <<Num(Int2R(SeqSum(self))), Op("DIV")>>)
    \o (IF Truthy(kw.bias) THEN <<Num(Int2R(Val(kw.bias))), Op("ADD")>> ELSE <<>>)
    \o (IF ~kw.saturate THEN <<Op("ABS")>> ELSE <<>>)
    \o (IF Truthy(kw.multiply) THEN <<Num(Int2R(Val(kw.multiply))), Op("MUL")>> ELSE <<>>)
    \o (IF kw.clamp THEN <<<<"range", "min">>, Op("MAX"), <<"range", "max">>, Op("MIN")>> ELSE <<>>)

\* The frame properties and pixel values the expression reads, and the value
\* range of the clip's format (an 8-bit integer clip).
AkarinEnv(pixels, sc_next, sc_prev) ==
    [pix |-> [i \in 1..Len(pixels) |-> Int2R(pixels[i])],
     props |-> ("_SceneChangeNext" :> sc_next) @@ ("_SceneChangePrev" :> sc_prev),
     range |-> [min |-> Int2R(0), max |-> Int2R(255)]]

Top(stack) == stack[Len(stack)]

\* What the expression body \o tail evaluates to; after is the state of the
\* stack machine after body (the weighted sum).
AkarinResult(self, body, tail, after, env) ==
    [backend |-> "expr", expr |-> body \o tail, tail |-> tail,
     sum |-> Top(after.stack),
     value |-> Top(ExprEval(tail, after.stack, after.regs, env).stack),
     conds |-> [k1 \in 1..Len(self) |-> after.regs[k1 - 1]]]

\* _averageframes_akarin for one pixel position: the expression built and
\* what it evaluates to (sum: the value left by the weighted sum alone).
averageframes_akarin(self, kw, env) ==
    IF kw.scenechange = None \/ Val(kw.scenechange) = FALSE
    THEN [backend |-> "ExprOp.convolution", expr |-> <<>>, tail |-> <<>>,
          sum |-> Int2R(0), value |-> Int2R(0), conds |-> <<>>]
    ELSE AkarinResult(self, AkarinSum(self), AkarinTail(self, kw),
                      ExprEval(AkarinSum(self), <<>>,
                               [k \in 0..(Len(self) - 1) |-> Int2R(0)], env),
                      env)

\* The keyword arguments left at their defaults, scenechange=True.
AkarinDefaultKw ==
    [scenechange |-> Some(TRUE), premultiply |-> None, divisor |-> None, bias |-> None,
     saturate |-> TRUE, multiply |-> None, clamp |-> FALSE]

\* Temporal matrices (odd lengths, radius 1 and 2) and pixel values tried
\* with every combination of scene-change properties.
SceneMatrices == {<<1, 2, 1>>, <<3, 1, 2>>, <<1, 2, 3, 4, 5>>}
ScenePixelValues == {0, 2}

\* Matrices, pixels and arguments tried for the steps after the weighted sum.
TailMatrices == {<<1, 2, 1>>, <<1, 1, 1>>}
TailPixels == {<<0, 0, 0>>, <<100, 255, 30>>, <<255, 255, 255>>}
SceneChangeValues == {None, Some(FALSE), Some(TRUE)}
DivisorValues == {None, Some(0), Some(2), Some(8)}
AkarinBiasValues == {None, Some(0), Some(-300)}
PremultiplyValues == {None, Some(2)}
MultiplyValues == {None, Some(3)}

AkarinIdle ==
    [called |-> FALSE, self |-> <<>>, kw |-> AkarinDefaultKw, pix |-> <<>>,
     next |-> {}, prev |-> {},
     out |-> [backend |-> "none", expr |-> <<>>, tail |-> <<>>, sum |-> Int2R(0),
              value |-> Int2R(0), conds |-> <<>>]]

AkarinCalled(matrix, kwargs, pixels, sc_next, sc_prev) ==
    [called |-> TRUE, self |-> matrix, kw |-> kwargs, pix |-> pixels,
     next |-> sc_next, prev |-> sc_prev,
     out |-> averageframes_akarin(matrix, kwargs, AkarinEnv(pixels, sc_next, sc_prev))]

\* matrix(clip, scenechange=True) reaching _averageframes_akarin, on frames
\* with any scene-change properties.
AkarinSceneCall ==
    /\ ~akarin.called
    /\ \E self \in SceneMatrices :
       \E pix \in [1..Len(self) -> ScenePixelValues],
          next \in SUBSET (1..Len(self)), prev \in SUBSET (1..Len(self)) :
        /\ akarin' = AkarinCalled(self, AkarinDefaultKw, pix, next, prev)
        /\ UNCHANGED <<blur, lfmAttr, limit, edge, scaler, dmThr, dmUse, bmat, color, attempts, ssim, medge, gscaler, frey>>

\* matrix(clip, bias=.., divisor=.., saturate=.., scenechange=.., premultiply=..,
\* multiply=.., clamp=..) reaching _averageframes_akarin.
AkarinTailCall ==
    /\ ~akarin.called
    /\ \E self \in TailMatrices, pix \in TailPixels, next \in {{}, {1}},
          scenechange \in SceneChangeValues, premultiply \in PremultiplyValues,
          divisor \in DivisorValues, bias \in AkarinBiasValues, saturate \in BOOLEAN,
          multiply \in MultiplyValues, clamp \in BOOLEAN :
        /\ akarin' = AkarinCalled(self,
                        [scenechange |-> scenechange, premultiply |-> premultiply,
                         divisor |-> divisor, bias |-> bias, saturate |-> saturate,
                         multiply |-> multiply, clamp |-> clamp],
                        pix, next, {})
        /\ UNCHANGED <<blur, lfmAttr, limit, edge, scaler, dmThr, dmUse, bmat, color, attempts, ssim, medge, gscaler, frey>>

\* The processed clip has been returned.
AkarinReturn ==
    /\ akarin.called
    /\ akarin' = AkarinIdle
    /\ UNCHANGED <<blur, lfmAttr, limit, edge, scaler, dmThr, dmUse, bmat, color, attempts, ssim, medge, gscaler, frey>>

(***************************************************************************)
(* vstools/utils/colors.py: the direct conversions of the Resample classes  *)
(*                                                                         *)
(* A clip is its sample format and the values of one pixel (a fraction per  *)
(* plane); the rounding of the host's matrix filter to the sample format    *)
(* is not modelled.                                                        *)
(***************************************************************************)

\* The classes whose matrices have rational coefficients.
MatrixClasses == {"ResampleOPPBM3D", "ResampleOPPBM3DS", "ResampleYCgCo", "ResampleYCgCoR"}

\* matrix_rgb2csp, row by row.
matrix_rgb2csp(cls) ==
    CASE cls = "ResampleOPPBM3D" ->
            << <<1, 3>>, <<1, 3>>, <<1, 3>>,
               <<1, 2>>, <<0, 1>>, <<-1, 2>>,
               <<1, 4>>, <<-1, 2>>, <<1, 4>> >>
      [] cls = "ResampleOPPBM3DS" ->
            << <<1, 3>>, <<1, 3>>, <<1, 3>>,
               <<0, 1>>, <<1, 2>>, <<-1, 2>>,
               <<-1, 2>>, <<1, 4>>, <<1, 4>> >>
      [] cls = "ResampleYCgCo" ->
            << <<1, 4>>, <<1, 2>>, <<1, 4>>,
               <<1, 2>>, <<0, 1>>, <<-1, 2>>,
               <<-1, 4>>, <<1, 2>>, <<-1, 4>> >>
      [] cls = "ResampleYCgCoR" ->
            << <<1, 4>>, <<1, 2>>, <<1, 4>>,
               <<1, 1>>, <<0, 1>>, <<-1, 1>>,
               <<-1, 2>>, <<1, 1>>, <<-1, 2>> >>

\* matrix_csp2rgb, row by row.
matrix_csp2rgb(cls) ==
    CASE cls = "ResampleOPPBM3D" ->
            << <<1, 1>>, <<1, 1>>, <<2, 3>>,
               <<1, 1>>, <<0, 1>>, <<-4, 3>>,
               <<1, 1>>, <<-1, 1>>, <<2, 3>> >>
      [] cls = "ResampleOPPBM3DS" ->
            << <<1, 1>>, <<0, 1>>, <<-4, 3>>,
               <<1, 1>>, <<1, 1>>, <<2, 3>>,
               <<1, 1>>, <<-1, 1>>, <<2, 3>> >>
      [] cls = "ResampleYCgCo" ->
            << <<1, 1>>, <<1, 1>>, <<-1, 1>>,
               <<1, 1>>, <<0, 1>>, <<1, 1>>,
               <<1, 1>>, <<-1, 1>>, <<-1, 1>> >>
      [] cls = "ResampleYCgCoR" ->
            << <<1, 1>>, <<1, 2>>, <<-1, 2>>,
               <<1, 1>>, <<0, 1>>, <<1, 2>>,
               <<1, 1>>, <<-1, 2>>, <<-1, 2>> >>

\* interleave_arr(matrix, [0, 0, 0], 3): the 3x4 coefficients given to
\* fmtc.matrix, a zero offset after the three coefficients of each row.
interleave_arr(matrix) ==
    [i \in 1..12 |-> IF i % 4 = 0 THEN Int2R(0) ELSE matrix[3 * ((i - 1) \div 4) + ((i - 1) % 4) + 1]]

\* fmtc.matrix(coef=..): each output plane is the row's coefficients times
\* the input planes, plus the row's offset.
fmtc_matrix(coef, px) ==
    [row \in 1..3 |->
        RAdd(RAdd(RAdd(RMul(coef[4 * row - 3], px[1]), RMul(coef[4 * row - 2], px[2])),
                  RMul(coef[4 * row - 1], px[3])),
             coef[4 * row])]

\* depth(clip, bits): integer samples below 32 bits, float samples at 32.
depth(bits) == <<IF bits = 32 THEN "FLOAT" ELSE "INTEGER", bits>>

\* 32 if fp32 else 16
Fp32Bits(fp32) == IF Val(fp32) THEN 32 ELSE 16

\* return clip if fp32 is None else depth(clip, 32 if fp32 else 16)
Fp32Depth(clip, fp32) ==
    IF fp32 = None THEN clip ELSE [clip EXCEPT !.fmt = depth(Fp32Bits(fp32))]

\* ResampleGRAY.yuv2csp: plane(clip, 0), or resize.Point(format=GRAYS / GRAY16).
ResampleGRAY_yuv2csp(clip, fp32) ==
    IF fp32 = None \/ Fp32Bits(fp32) = clip.fmt[2]
    THEN [fmt |-> clip.fmt, px |-> <<clip.px[1]>>]
    ELSE [fmt |-> IF Val(fp32) THEN <<"FLOAT", 32>> ELSE <<"INTEGER", 16>>,
          px |-> <<clip.px[1]>>]

\* ResampleRGBMatrixUtil.rgb2csp with the two matrices exchanged.
ResampleRGBMatrixUtil_rgb2csp_MutSwap(cls, clip, fp32) ==
    Fp32Depth([clip EXCEPT !.px = fmtc_matrix(interleave_arr(matrix_csp2rgb(cls)), clip.px)], fp32)

\* ResampleRGBMatrixUtil.rgb2csp
ResampleRGBMatrixUtil_rgb2csp(cls, clip, fp32) ==
    Fp32Depth([clip EXCEPT !.px = fmtc_matrix(interleave_arr(matrix_rgb2csp(cls)), clip.px)], fp32)

\* ResampleRGBMatrixUtil.csp2rgb
ResampleRGBMatrixUtil_csp2rgb(cls, clip, fp32) ==
    Fp32Depth([clip EXCEPT !.px = fmtc_matrix(interleave_arr(matrix_csp2rgb(cls)), clip.px)], fp32)

\* The direct conversions: the methods that do not resample through another
\* colour family first.
DirectMethods(cls) ==
    IF cls \in {"ResampleYUV", "ResampleGRAY"} THEN {"yuv2csp", "csp2yuv"}
    ELSE {"rgb2csp", "csp2rgb"}

ResampleClasses == MatrixClasses \cup {"ResampleRGB", "ResampleYUV", "ResampleGRAY"}

\* cls.method(clip, fp32)
Resample_call(cls, method, clip, fp32) ==
    IF cls \in MatrixClasses
    THEN IF method = "rgb2csp" THEN ResampleRGBMatrixUtil_rgb2csp(cls, clip, fp32)
         ELSE ResampleRGBMatrixUtil_csp2rgb(cls, clip, fp32)
    ELSE IF cls = "ResampleGRAY" /\ method = "yuv2csp" THEN ResampleGRAY_yuv2csp(clip, fp32)
    ELSE Fp32Depth(clip, fp32)

Fp32Values == {None, Some(FALSE), Some(TRUE)}

\* The plane values tried: every triple over 0, 1, 2 for the matrix classes
\* (the unit triples among them), one triple for the others.
ColorPlaneValues == {0, 1, 2}
ColorPixels(cls) ==
    IF cls \in MatrixClasses
    THEN {<<Int2R(a), Int2R(b), Int2R(c)>> : a \in ColorPlaneValues, b \in ColorPlaneValues,
                                            c \in ColorPlaneValues}
    ELSE {<<Int2R(1), Int2R(2), Int2R(0)>>}

ColorIdle ==
    [stage |-> "idle", cls |-> "ResampleRGB", method |-> "rgb2csp", fp32 |-> None,
     src |-> [fmt |-> <<"INTEGER", 8>>, px |-> <<>>],
     out |-> [fmt |-> <<"INTEGER", 8>>, px |-> <<>>]]

\* cls.method(clip, fp32) on a clip of any format.
ResampleCall ==
    /\ color.stage = "idle"
    /\ \E cls \in ResampleClasses, fmt \in ClipFormats, fp32 \in Fp32Values :
       \E method \in DirectMethods(cls), px \in ColorPixels(cls) :
        /\ color' = [stage |-> "converted", cls |-> cls, method |-> method, fp32 |-> fp32,
                     src |-> [fmt |-> fmt, px |-> px],
                     out |-> Resample_call(cls, method, [fmt |-> fmt, px |-> px], fp32)]
        /\ UNCHANGED <<blur, lfmAttr, limit, edge, scaler, dmThr, dmUse, bmat, akarin, attempts, ssim, medge, gscaler, frey>>

\* The converted clip is converted back by the opposite method of the same
\* matrix class, the sample format left alone.
ResampleBack ==
    /\ color.stage = "converted"
    /\ color.cls \in MatrixClasses
    /\ color.fp32 = None
    /\ color' = [color EXCEPT
                    !.stage = "restored",
                    !.out = Resample_call(color.cls,
                                IF color.method = "rgb2csp" THEN "csp2rgb" ELSE "rgb2csp",
                                color.out, None)]
    /\ UNCHANGED <<blur, lfmAttr, limit, edge, scaler, dmThr, dmUse, bmat, akarin, attempts, ssim, medge, gscaler, frey>>

\* The clip is handed back to the caller.
ResampleReturn ==
    /\ color.stage # "idle"
    /\ color' = ColorIdle
    /\ UNCHANGED <<blur, lfmAttr, limit, edge, scaler, dmThr, dmUse, bmat, akarin, attempts, ssim, medge, gscaler, frey>>

(***************************************************************************)
(* vsscale/types.py: DescaleAttempt                                        *)
(*                                                                         *)
(* A clip is a record of what it was made from; a frame property is a pair  *)
(* of its key and its kind.                                                *)
(***************************************************************************)

\* DescaleMode.prop_key
prop_key(mode) ==
    IF mode \in {"PlaneAverage", "PlaneAverageMin", "PlaneAverageMax"}
    THEN "PlaneStatsPAvg" ELSE "PlaneStatsKDiff"

\* std.PlaneStats(clipb, prop=key): the properties it sets; Diff only with a
\* second clip.
PlaneStats(key, two) ==
    {<<key, "Min">>, <<key, "Max">>, <<key, "Average">>}
        \cup (IF two THEN {<<key, "Diff">>} ELSE {})

\* merge_clip_props(diff, diff_props): the first clip with the properties of
\* the others added.
merge_clip_props(clip, other) == [clip EXCEPT !.props = clip.props \cup other.props]

\* str(n) for a natural number, as its decimal characters.
DigitChars == <<"0", "1", "2", "3", "4", "5", "6", "7", "8", "9">>
RECURSIVE Str(_)
Str(n) == IF n < 10 THEN <<DigitChars[n + 1]>> ELSE Str(n \div 10) \o <<DigitChars[(n % 10) + 1]>>

\* DescaleAttempt.get_hash: f'{width}_{height}_{kernel.__class__.__name__}'
get_hash(width, height, kernel) ==
    Str(width) \o <<"_">> \o Str(height) \o <<"_">> \o <<kernel.cls>>

\* from_args with the rescale going to the descaled size.
from_args_MutSize(clip, width, height, shift, kernel, mode, kwargs) ==
    LET descaled == [op |-> "descale", kernel |-> kernel, of |-> clip, width |-> width,
                     height |-> height, shift |-> shift, props |-> kwargs]
        rescaled == [op |-> "scale", kernel |-> kernel, of |-> descaled,
                     width |-> width, height |-> height, props |-> descaled.props]
        diff == [expr |-> "x y - abs", x |-> rescaled, y |-> clip,
                 props |-> rescaled.props \cup PlaneStats(prop_key("PlaneAverage"), FALSE)]
        diff_props == [rescaled EXCEPT
                          !.props = @ \cup PlaneStats(prop_key("KernelDiff"), TRUE)]
    IN  [resolution |-> <<width, height>>, descaled |-> descaled, rescaled |-> rescaled,
         diff |-> IF mode \in {"KernelDiff", "KernelDiffMin", "KernelDiffMax"}
                  THEN merge_clip_props(diff, diff_props) ELSE diff,
         kernel |-> kernel, da_hash |-> get_hash(width, height, kernel)]

\* DescaleAttempt.from_args
from_args(clip, width, height, shift, kernel, mode, kwargs) ==
    LET descaled == [op |-> "descale", kernel |-> kernel, of |-> clip, width |-> width,
                     height |-> height, shift |-> shift, props |-> kwargs]
        rescaled == [op |-> "scale", kernel |-> kernel, of |-> descaled,
                     width |-> clip.width, height |-> clip.height, props |-> descaled.props]
        diff == [expr |-> "x y - abs", x |-> rescaled, y |-> clip,
                 props |-> rescaled.props \cup PlaneStats(prop_key("PlaneAverage"), FALSE)]
        diff_props == [rescaled EXCEPT
                          !.props = @ \cup PlaneStats(prop_key("KernelDiff"), TRUE)]
    IN  [resolution |-> <<width, height>>, descaled |-> descaled, rescaled |-> rescaled,
         diff |-> IF mode \in {"KernelDiff", "KernelDiffMin", "KernelDiffMax"}
                  THEN merge_clip_props(diff, diff_props) ELSE diff,
         kernel |-> kernel, da_hash |-> get_hash(width, height, kernel)]

\* The kernels tried: two Bicubic instances with different b and c, and one
\* Bilinear.
AttemptKernels ==
    {[cls |-> "Bicubic", params |-> <<<<0, 1>>, <<1, 2>>>>],
     [cls |-> "Bicubic", params |-> <<<<1, 3>>, <<1, 3>>>>],
     [cls |-> "Bilinear", params |-> <<>>]}

\* The source clips and the sizes tried.
AttemptClips == {[width |-> 20, height |-> 12], [width |-> 12, height |-> 20]}
AttemptSizes == {1, 11}
AttemptShifts == {<<0, 0>>, <<1, 0>>}
AttemptKwargs == {{}, {<<"user", "tag">>}}

\* The attempts of one descale: at most this many are kept.
MaxAttempts == 2

\* The first attempt of a descale, on any clip, mode, shift and kwargs.
FromArgsFirst ==
    /\ attempts = <<>>
    /\ \E clip \in AttemptClips, mode \in DescaleModes, shift \in AttemptShifts,
          kwargs \in AttemptKwargs, width \in AttemptSizes, height \in AttemptSizes,
          kernel \in AttemptKernels :
        LET args == [clip |-> clip, width |-> width, height |-> height, shift |-> shift,
                     kernel |-> kernel, mode |-> mode, kwargs |-> kwargs]
        IN  attempts' = <<[args |-> args,
                           out |-> from_args(clip, width, height, shift, kernel, mode, kwargs)]>>
    /\ UNCHANGED <<blur, lfmAttr, limit, edge, scaler, dmThr, dmUse, bmat, akarin, color, ssim, medge, gscaler, frey>>

\* A further attempt of the same descale: the same clip, mode, shift and
\* kwargs, any size and kernel.
FromArgsNext ==
    /\ attempts # <<>>
    /\ Len(attempts) < MaxAttempts
    /\ \E width \in AttemptSizes, height \in AttemptSizes, kernel \in AttemptKernels :
        LET first == attempts[1].args
            args == [first EXCEPT !.width = width, !.height = height, !.kernel = kernel]
        IN  attempts' = Append(attempts,
                [args |-> args,
                 out |-> from_args(first.clip, width, height, first.shift, kernel,
                                   first.mode, first.kwargs)])
    /\ UNCHANGED <<blur, lfmAttr, limit, edge, scaler, dmThr, dmUse, bmat, akarin, color, ssim, medge, gscaler, frey>>

\* The descale has ended: its attempts are dropped.
AttemptsDrop ==
    /\ attempts # <<>>
    /\ attempts' = <<>>
    /\ UNCHANGED <<blur, lfmAttr, limit, edge, scaler, dmThr, dmUse, bmat, akarin, color, ssim, medge, gscaler, frey>>

(***************************************************************************)
(* vsscale/scale.py: SSIM.scale                                            *)
(*                                                                         *)
(* A smooth value is its Python type and its text; a clip is the name the   *)
(* code gives it.                                                          *)
(***************************************************************************)

\* The default of the smooth parameter of SSIM.scale.
SmoothDefault == [type |-> "float", val |-> "((3 ** 2 - 1) / 12) ** 0.5"]

SmoothValues ==
    {SmoothDefault, [type |-> "float", val |-> "1.5"], [type |-> "int", val |-> "1"],
     [type |-> "int", val |-> "0"], [type |-> "callable", val |-> "min_blur"]}

\* The filter chosen for an int with the int taken as a sigma.
SSIM_filter_func_MutInt(smooth) ==
    IF smooth.type = "callable" THEN Some([func |-> smooth.val, kw |-> "", val |-> ""])
    ELSE IF smooth.type = "int" THEN Some([func |-> "gauss_blur", kw |-> "sigma", val |-> smooth.val])
    ELSE IF smooth.type = "float" THEN Some([func |-> "gauss_blur", kw |-> "sigma", val |-> smooth.val])
    ELSE None

\* if callable(smooth) .. elif isinstance(smooth, int) .. elif
\* isinstance(smooth, float): filter_func, unbound for any other type.
SSIM_filter_func(smooth) ==
    IF smooth.type = "callable" THEN Some([func |-> smooth.val, kw |-> "", val |-> ""])
    ELSE IF smooth.type = "int" THEN Some([func |-> "box_blur", kw |-> "radius", val |-> smooth.val])
    ELSE IF smooth.type = "float" THEN Some([func |-> "gauss_blur", kw |-> "sigma", val |-> smooth.val])
    ELSE None

\* f'{self.epsilon}': the text of the field inside the expression.
FormatEpsilon(epsilon) == IF epsilon = None THEN "None" ELSE Val(epsilon)

\* The host's reading of a token as a number: None when it is not one.
ParseNumber(text) ==
    CASE text = "1e-06" -> Some(<<1, 1000000>>)
      [] text = "0.5" -> Some(<<1, 2>>)
      [] OTHER -> None

\* A token of the expression string that is neither a clip, an operator nor
\* a register: a number, or a text the host cannot read.
TextToken(text) ==
    IF ParseNumber(text) = None THEN <<"bad", text>> ELSE Num(Val(ParseNumber(text)))

\* merge_expr, token by token: x, y, z are clips 1, 2, 3; SQ and SQD are
\* registers 1 and 2.
merge_expr_tokens(aka_expr_available, epsilon) ==
    IF aka_expr_available
    THEN <<Var(3), Op("DUP"), Op("MUL"), Store(1), Var(1), Load(1), Op("SUB"), Store(2),
           Load(2), TextToken(FormatEpsilon(epsilon)), Op("LT"), Num(Int2R(0)),
           Var(2), Load(1), Op("SUB"), Load(2), Op("DIV"), Op("SQRT"), Op("TERN")>>
    ELSE <<Var(1), Var(3), Op("DUP"), Op("MUL"), Op("SUB"),
           TextToken(FormatEpsilon(epsilon)), Op("LT"), Num(Int2R(0)),
           Var(2), Var(3), Op("DUP"), Op("MUL"), Op("SUB"),
           Var(1), Var(3), Op("DUP"), Op("MUL"), Op("SUB"), Op("DIV"), Op("SQRT"),
           Op("TERN")>>

\* expr_func(clips, expr) at one pixel: the host refuses an expression with
\* a token it cannot read, and otherwise leaves the value on the stack.
expr_func(px, expr) ==
    IF \E i \in 1..Len(expr) : expr[i][1] = "bad"
    THEN [error |-> "vs.Error", value |-> None]
    ELSE [error |-> NoError,
          value |-> Some(Top(ExprEval(expr, <<>>, <<Int2R(0), Int2R(0)>>,
                                      [pix |-> px, props |-> <<>>, range |-> <<>>]).stack))]

\* The clips filter_func is applied to, in the order of the code.
SmoothedClips == <<"l1", "l1_sq", "l2", "m", "r", "t">>

\* SSIM.scale(clip, width, height, shift, smooth, curve, sigmoid); an omitted
\* argument has the default of the signature.
SSIM_scale(self, smooth0, curve0, sigmoid0, aka_expr_available, px) ==
    LET smooth == fallback(self.smooth, IF smooth0 = None THEN SmoothDefault ELSE Val(smooth0))
        curve1 == fallback(self.curve, IF curve0 = None THEN "False" ELSE Val(curve0))
        sigmoid == fallback(self.sigmoid, IF sigmoid0 = None THEN "False" ELSE Val(sigmoid0))
        filter_func == SSIM_filter_func(smooth)
        curve == IF curve1 = "True" THEN "Transfer.from_matrix" ELSE curve1
        r == expr_func(px, merge_expr_tokens(aka_expr_available, self.epsilon))
        \* l1, l1_sq and l2 are smoothed before merge_expr is given to the
        \* host, m, r and t after it.
        steps == IF r.error = NoError THEN Len(SmoothedClips) ELSE 3
    IN  IF filter_func = None
        THEN [error |-> "UnboundLocalError", filter_func |-> None, smoothed |-> <<>>,
              gamma |-> None, merge_expr |-> <<>>, epsilon |-> "",
              r |-> [error |-> NoError, value |-> None]]
        ELSE [error |-> r.error, filter_func |-> filter_func,
              smoothed |-> [i \in 1..steps |->
                               [clip |-> SmoothedClips[i], by |-> Val(filter_func)]],
              gamma |-> IF curve # "False"
                        THEN Some([curve |-> curve, sigmoid |-> sigmoid, epsilon |-> self.epsilon])
                        ELSE None,
              merge_expr |-> IF aka_expr_available
                             THEN <<"z dup * SQ! x SQ@ - SQD! SQD@", FormatEpsilon(self.epsilon),
                                    "< 0 y SQ@ - SQD@ / sqrt ?">>
                             ELSE <<"x z dup * -", FormatEpsilon(self.epsilon),
                                    "< 0 y z dup * - x z dup * - / sqrt ?">>,
              epsilon |-> FormatEpsilon(self.epsilon),
              r |-> r]

\* The fields of an SSIM instance and the arguments of a call.
SsimFields ==
    [smooth : {None} \cup {Some(s) : s \in SmoothValues},
     curve : {None, Some("False"), Some("True")},
     sigmoid : {None, Some("True")},
     epsilon : {None, Some("1e-06"), Some("0.5")}]

\* The values of sl_m_square, sh_m_square and m at one pixel.
SsimPixels ==
    {<<Int2R(5), Int2R(17), Int2R(1)>>, <<Int2R(1), Int2R(3), Int2R(1)>>,
     <<Int2R(5), Int2R(2), Int2R(1)>>, <<<<5, 4>>, Int2R(2), Int2R(1)>>}

SsimIdle ==
    [called |-> FALSE,
     self |-> [smooth |-> None, curve |-> None, sigmoid |-> None, epsilon |-> None],
     smooth |-> None, curve |-> None, aka |-> FALSE, px |-> <<>>,
     out |-> [error |-> NoError, filter_func |-> None, smoothed |-> <<>>, gamma |-> None,
              merge_expr |-> <<>>, epsilon |-> "",
              r |-> [error |-> NoError, value |-> None]]]

\* SSIM(...).scale(clip, width, height, smooth=.., curve=..)
SsimScaleCall ==
    /\ ~ssim.called
    /\ \E self \in SsimFields, smooth \in {None} \cup {Some(s) : s \in SmoothValues},
          curve \in {None, Some("True")}, aka \in BOOLEAN, px \in SsimPixels :
        ssim' = [called |-> TRUE, self |-> self, smooth |-> smooth, curve |-> curve,
                 aka |-> aka, px |-> px,
                 out |-> SSIM_scale(self, smooth, curve, None, aka, px)]
    /\ UNCHANGED <<blur, lfmAttr, limit, edge, scaler, dmThr, dmUse, bmat, akarin, color, attempts, medge, gscaler, frey>>

\* The scaled clip is handed back to the caller.
SsimScaleReturn ==
    /\ ssim.called
    /\ ssim' = SsimIdle
    /\ UNCHANGED <<blur, lfmAttr, limit, edge, scaler, dmThr, dmUse, bmat, akarin, color, attempts, medge, gscaler, frey>>

(***************************************************************************)
(* vsmask/edge.py: the MatrixEdgeDetect operators                          *)
(***************************************************************************)

\* The operators: the subclasses of MatrixEdgeDetect that have matrices.
MatrixEdgeDetects ==
    {"Laplacian1", "Laplacian2", "Laplacian3", "Laplacian4", "Kayyali", "ExLaplacian1",
     "ExLaplacian2", "ExLaplacian3", "ExLaplacian4", "LoG", "Roberts", "Prewitt", "Sobel",
     "Scharr", "ScharrG41", "Kroon", "FreyChenG41", "TEdge", "ExPrewitt", "ExSobel",
     "FDOG", "Robinson3", "Robinson5", "Kirsch", "ExKirsch", "FreyChen"}

\* cls.matrices; a coefficient of FreyChen is <<a, b>> for a + b * sqrt2.
matrices(cls) ==
    CASE cls = "Laplacian1" ->
        <<
          <<0, -1, 0, -1, 4, -1, 0, -1, 0>>
        >>
      [] cls = "Laplacian2" ->
        <<
          <<1, -2, 1, -2, 4, -2, 1, -2, 1>>
        >>
      [] cls = "Laplacian3" ->
        <<
          <<2, -1, 2, -1, -4, -1, 2, -1, 2>>
        >>
      [] cls = "Laplacian4" ->
        <<
          <<-1, -1, -1, -1, 8, -1, -1, -1, -1>>
        >>
      [] cls = "Kayyali" ->
        <<
          <<6, 0, -6, 0, 0, 0, -6, 0, 6>>
        >>
      [] cls = "ExLaplacian1" ->
        <<
          <<0, 0, -1, 0, 0, 0, 0, -1, 0, 0, -1, -1, 8, -1, -1, 0, 0, -1, 0, 0, 0, 0, -1,
             0, 0>>
        >>
      [] cls = "ExLaplacian2" ->
        <<
          <<0, 1, -1, 1, 0, 1, 1, -4, 1, 1, -1, -4, 8, -4, -1, 1, 1, -4, 1, 1, 0, 1, -1,
             1, 0>>
        >>
      [] cls = "ExLaplacian3" ->
        <<
          <<-1, 1, -1, 1, -1, 1, 2, -4, 2, 1, -1, -4, 8, -4, -1, 1, 2, -4, 2, 1, -1, 1,
             -1, 1, -1>>
        >>
      [] cls = "ExLaplacian4" ->
        <<
          <<-1, -1, -1, -1, -1, -1, -1, -1, -1, -1, -1, -1, 24, -1, -1, -1, -1, -1, -1,
             -1, -1, -1, -1, -1, -1>>
        >>
      [] cls = "LoG" ->
        <<
          <<0, 0, -1, 0, 0, 0, -1, -2, -1, 0, -1, -2, 16, -2, -1, 0, -1, -2, -1, 0, 0, 0,
             -1, 0, 0>>
        >>
      [] cls = "Roberts" ->
        <<
          <<0, 0, 0, 0, 1, 0, 0, 0, -1>>,
          <<0, 1, 0, -1, 0, 0, 0, 0, 0>>
        >>
      [] cls = "Prewitt" ->
        <<
          <<1, 0, -1, 1, 0, -1, 1, 0, -1>>,
          <<1, 1, 1, 0, 0, 0, -1, -1, -1>>
        >>
      [] cls = "Sobel" ->
        <<
          <<1, 0, -1, 2, 0, -2, 1, 0, -1>>,
          <<1, 2, 1, 0, 0, 0, -1, -2, -1>>
        >>
      [] cls = "Scharr" ->
        <<
          <<-3, 0, 3, -10, 0, 10, -3, 0, 3>>,
          <<-3, -10, -3, 0, 0, 0, 3, 10, 3>>
        >>
      [] cls = "ScharrG41" ->
        <<
          <<-3, 0, 3, -10, 0, 10, -3, 0, 3>>,
          <<-3, -10, -3, 0, 0, 0, 3, 10, 3>>
        >>
      [] cls = "Kroon" ->
        <<
          <<-17, 0, 17, -61, 0, 61, -17, 0, 17>>,
          <<-17, -61, -17, 0, 0, 0, 17, 61, 17>>
        >>
      [] cls = "FreyChenG41" ->
        <<
          <<-7, 0, 7, -10, 0, 10, -7, 0, 7>>,
          <<-7, -10, -7, 0, 0, 0, 7, 10, 7>>
        >>
      [] cls = "TEdge" ->
        <<
          <<12, -74, 0, 74, -12>>,
          <<-12, 74, 0, -74, 12>>
        >>
      [] cls = "ExPrewitt" ->
        <<
          <<2, 1, 0, -1, -2, 2, 1, 0, -1, -2, 2, 1, 0, -1, -2, 2, 1, 0, -1, -2, 2, 1, 0,
             -1, -2>>,
          <<2, 2, 2, 2, 2, 1, 1, 1, 1, 1, 0, 0, 0, 0, 0, -1, -1, -1, -1, -1, -2, -2, -2,
             -2, -2>>
        >>
      [] cls = "ExSobel" ->
        <<
          <<2, 1, 0, -1, -2, 2, 1, 0, -1, -2, 4, 2, 0, -2, -4, 2, 1, 0, -1, -2, 2, 1, 0,
             -1, -2>>,
          <<2, 2, 4, 2, 2, 1, 1, 2, 1, 1, 0, 0, 0, 0, 0, -1, -1, -2, -1, -1, -2, -2, -4,
             -2, -2>>
        >>
      [] cls = "FDOG" ->
        <<
          <<1, 1, 0, -1, -1, 2, 2, 0, -2, -2, 3, 3, 0, -3, -3, 2, 2, 0, -2, -2, 1, 1, 0,
             -1, -1>>,
          <<1, 2, 3, 2, 1, 1, 2, 3, 2, 1, 0, 0, 0, 0, 0, -1, -2, -3, -2, -1, -1, -2, -3,
             -2, -1>>
        >>
      [] cls = "Robinson3" ->
        <<
          <<1, 1, 1, 0, 0, 0, -1, -1, -1>>,
          <<1, 1, 0, 1, 0, -1, 0, -1, -1>>,
          <<1, 0, -1, 1, 0, -1, 1, 0, -1>>,
          <<0, -1, -1, 1, 0, -1, 1, 1, 0>>
        >>
      [] cls = "Robinson5" ->
        <<
          <<1, 2, 1, 0, 0, 0, -1, -2, -1>>,
          <<2, 1, 0, 1, 0, -1, 0, -1, -2>>,
          <<1, 0, -1, 2, 0, -2, 1, 0, -1>>,
          <<0, -1, -2, 1, 0, -1, 2, 1, 0>>
        >>
      [] cls = "Kirsch" ->
        <<
          <<5, 5, 5, -3, 0, -3, -3, -3, -3>>,
          <<5, 5, -3, 5, 0, -3, -3, -3, -3>>,
          <<5, -3, -3, 5, 0, -3, 5, -3, -3>>,
          <<-3, -3, -3, 5, 0, -3, 5, 5, -3>>,
          <<-3, -3, -3, -3, 0, -3, 5, 5, 5>>,
          <<-3, -3, -3, -3, 0, 5, -3, 5, 5>>,
          <<-3, -3, 5, -3, 0, 5, -3, -3, 5>>,
          <<-3, 5, 5, -3, 0, 5, -3, -3, -3>>
        >>
      [] cls = "ExKirsch" ->
        <<
          <<9, 9, 9, 9, 9, 9, 5, 5, 5, 9, -7, -3, 0, -3, -7, -7, -3, -3, -3, -7, -7, -7,
             -7, -7, -7>>,
          <<9, 9, 9, 9, -7, 9, 5, 5, -3, -7, 9, 5, 0, -3, -7, 9, -3, -3, -3, -7, -7, -7,
             -7, -7, -7>>,
          <<9, 9, -7, -7, -7, 9, 5, -3, -3, -7, 9, 5, 0, -3, -7, 9, 5, -3, -3, -7, 9, 9,
             -7, -7, -7>>,
          <<-7, -7, -7, -7, -7, 9, -3, -3, -3, -7, 9, 5, 0, -3, -7, 9, 5, 5, -3, -7, 9, 9,
             9, 9, -7>>,
          <<-7, -7, -7, -7, -7, -7, -3, -3, -3, -7, -7, -3, 0, -3, -7, 9, 5, 5, 5, 9, 9,
             9, 9, 9, 9>>,
          <<-7, -7, -7, -7, -7, -7, -3, -3, -3, 9, -7, -3, 0, 5, 9, -7, -3, 5, 5, 9, -7,
             9, 9, 9, 9>>,
          <<-7, -7, -7, 9, 9, -7, -3, -3, 5, 9, -7, -3, 0, 5, 9, -7, -3, -3, 5, 9, -7, -7,
             -7, 9, 9>>,
          <<-7, 9, 9, 9, 9, -7, -3, 5, 5, 9, -7, -3, 0, 5, 9, -7, -3, -3, -3, 9, -7, -7,
             -7, -7, -7>>
        >>
      [] cls = "FreyChen" ->
        <<
          <<<<1, 0>>, <<0, 1>>, <<1, 0>>, <<0, 0>>, <<0, 0>>, <<0, 0>>, <<-1, 0>>,
             <<0, -1>>, <<-1, 0>>>>,
          <<<<1, 0>>, <<0, 0>>, <<-1, 0>>, <<0, 1>>, <<0, 0>>, <<0, -1>>, <<1, 0>>,
             <<0, 0>>, <<-1, 0>>>>,
          <<<<0, 0>>, <<-1, 0>>, <<0, 1>>, <<1, 0>>, <<0, 0>>, <<-1, 0>>, <<0, -1>>,
             <<1, 0>>, <<0, 0>>>>,
          <<<<0, 1>>, <<-1, 0>>, <<0, 0>>, <<-1, 0>>, <<0, 0>>, <<1, 0>>, <<0, 0>>,
             <<1, 0>>, <<0, -1>>>>,
          <<<<0, 0>>, <<1, 0>>, <<0, 0>>, <<-1, 0>>, <<0, 0>>, <<-1, 0>>, <<0, 0>>,
             <<1, 0>>, <<0, 0>>>>,
          <<<<-1, 0>>, <<0, 0>>, <<1, 0>>, <<0, 0>>, <<0, 0>>, <<0, 0>>, <<1, 0>>,
             <<0, 0>>, <<-1, 0>>>>,
          <<<<1, 0>>, <<-2, 0>>, <<1, 0>>, <<-2, 0>>, <<4, 0>>, <<-2, 0>>, <<1, 0>>,
             <<-2, 0>>, <<1, 0>>>>,
          <<<<-2, 0>>, <<1, 0>>, <<-2, 0>>, <<1, 0>>, <<4, 0>>, <<1, 0>>, <<-2, 0>>,
             <<1, 0>>, <<-2, 0>>>>,
          <<<<1, 0>>, <<1, 0>>, <<1, 0>>, <<1, 0>>, <<1, 0>>, <<1, 0>>, <<1, 0>>,
             <<1, 0>>, <<1, 0>>>>
        >>

\* cls.divisors, None where the class has none; a divisor of FreyChen is
\* <<a, b>> for a + b * sqrt2.
divisors(cls) ==
    CASE cls = "ScharrG41" -> Some(<<3, 3>>)
      [] cls = "FreyChenG41" -> Some(<<7, 7>>)
      [] cls = "TEdge" -> Some(<<62, 62>>)
      [] cls = "FDOG" -> Some(<<2, 2>>)
      [] cls = "FreyChen" -> Some(<<<<0, 2>>, <<0, 2>>, <<0, 2>>, <<0, 2>>, <<2, 0>>, <<2, 0>>, <<6, 0>>, <<6, 0>>, <<3, 0>>>>)
      [] OTHER -> None

\* cls.mode_types, None where the class has none.
mode_types(cls) ==
    CASE cls = "TEdge" -> Some(<<"h", "v">>)
      [] OTHER -> None

\* The number of coefficients the class docstring states: 9 for "3x3",
\* 25 for "5x5".
DocstringSize(cls) ==
    IF cls \in
       {"ExLaplacian1", "ExLaplacian2", "ExLaplacian3", "ExLaplacian4", "LoG", "ExPrewitt",
        "ExSobel", "ExKirsch"}
    THEN 25 ELSE 9

\* The class whose _merge the operator has.
MergeOf(cls) ==
    CASE cls \in
           {"Laplacian1", "Laplacian2", "Laplacian3", "Laplacian4", "Kayyali",
            "ExLaplacian1", "ExLaplacian2", "ExLaplacian3", "ExLaplacian4", "LoG"} -> "SingleMatrixDetect"
      [] cls \in
           {"Robinson3", "Robinson5", "Kirsch", "ExKirsch"} -> "MaxDetect"
      [] cls \in
           {"FreyChen"} -> "FreyChen"
      [] OTHER -> "EuclidianDistanceMatrixDetect"

\* _get_divisors: self.divisors if self.divisors else [0.0] * len(matrices)
get_divisors(cls) ==
    IF divisors(cls) # None /\ Val(divisors(cls)) # <<>> THEN Val(divisors(cls))
    ELSE [i \in 1..Len(matrices(cls)) |-> 0]

\* _get_mode_types: self.mode_types if self.mode_types else ['s'] * len(matrices)
get_mode_types(cls) ==
    IF mode_types(cls) # None /\ Val(mode_types(cls)) # <<>> THEN Val(mode_types(cls))
    ELSE [i \in 1..Len(matrices(cls)) |-> "s"]

\* min(a, b) of two lengths.
MinLen(a, b) == IF a < b THEN a ELSE b

\* MatrixEdgeDetect._compute_mask: one std.Convolution per (matrix, divisor,
\* mode) of the zip, handed to _merge.
compute_mask(cls) ==
    [i \in 1..MinLen(Len(matrices(cls)), MinLen(Len(get_divisors(cls)), Len(get_mode_types(cls)))) |->
        [matrix |-> matrices(cls)[i], divisor |-> get_divisors(cls)[i],
         mode |-> get_mode_types(cls)[i]]]

\* MatrixEdgeDetect._postprocess: the columns cropped on the right when the
\* first matrix has more than 9 coefficients, None when nothing is cropped;
\* FreyChen has its own _postprocess.
MatrixEdgeDetect_postprocess(cls, clip) ==
    IF cls # "FreyChen" /\ Len(matrices(cls)[1]) > 9
    THEN Some(IF clip.subsampling_w # 0 THEN clip.subsampling_w * 2 ELSE 2)
    ELSE None

\* The clips given to the operators.
EdgeSubsamplings == {0, 1, 2}
EdgeWidths == {8, 16}

MedgeIdle ==
    [called |-> FALSE, cls |-> "Laplacian1", clip |-> [subsampling_w |-> 0, width |-> 8],
     convolutions |-> <<>>, merge |-> "", crop |-> None]

\* _compute_mask and _postprocess of an operator on a clip.
ComputeMaskCall ==
    /\ ~medge.called
    /\ \E cls \in MatrixEdgeDetects, ss \in EdgeSubsamplings, width \in EdgeWidths :
        medge' = [called |-> TRUE, cls |-> cls,
                  clip |-> [subsampling_w |-> ss, width |-> width],
                  convolutions |-> compute_mask(cls), merge |-> MergeOf(cls),
                  crop |-> MatrixEdgeDetect_postprocess(cls, [subsampling_w |-> ss, width |-> width])]
    /\ UNCHANGED <<blur, lfmAttr, limit, edge, scaler, dmThr, dmUse, bmat, akarin, color, attempts, ssim, gscaler, frey>>

\* The mask is handed back.
ComputeMaskReturn ==
    /\ medge.called
    /\ medge' = MedgeIdle
    /\ UNCHANGED <<blur, lfmAttr, limit, edge, scaler, dmThr, dmUse, bmat, akarin, color, attempts, ssim, gscaler, frey>>

(***************************************************************************)
(* vsscale/types.py: GenericScaler.scale                                   *)
(*                                                                         *)
(* The wrapped function is what it does with each of the four ways it can   *)
(* be called; the steps of scale are taken one at a time.                  *)
(***************************************************************************)

\* The four calls of self.func, in the order of the code.
FuncCalls ==
    <<[form |-> "positional", shift |-> TRUE], [form |-> "keyword", shift |-> TRUE],
      [form |-> "positional", shift |-> FALSE], [form |-> "keyword", shift |-> FALSE]>>

\* The attempt scale starts with, the test on the shift inverted.
FirstAttemptMutInverted(shift) == IF shift # <<0, 0>> THEN 3 ELSE 1

\* if shift != (0, 0): the attempt scale starts with.
FirstAttempt(shift) == IF shift # <<0, 0>> THEN 1 ELSE 3

GScalerIdle ==
    [pc |-> "idle", shift |-> <<0, 0>>, func |-> <<"ok", "ok", "ok", "ok">>,
     kernel_shift |-> "ok", attempt |-> 0, calls |-> <<>>, scaled |-> None,
     shifted |-> <<>>, error |-> NoError, raised_by |-> ""]

\* GenericScaler(func).scale(clip, width, height, shift)
GenericScalerCall ==
    /\ gscaler.pc = "idle"
    /\ \E shift \in Shifts, func \in [1..4 -> HostOutcomes], ks \in {"ok", "Exception"} :
        gscaler' = [GScalerIdle EXCEPT !.pc = "try", !.shift = shift, !.func = func,
                                       !.kernel_shift = ks, !.attempt = FirstAttempt(shift)]
    /\ UNCHANGED <<blur, lfmAttr, limit, edge, scaler, dmThr, dmUse, bmat, akarin, color, attempts, ssim, medge, frey>>

\* One call of self.func. A with-shift call that returns is the result; one
\* that raises leads to the next attempt. A without-shift call that returns
\* goes on to kernel.shift; the first that raises leads to the keyword call,
\* the keyword call that raises is not caught.
GenericScalerAttempt ==
    /\ gscaler.pc = "try"
    /\ LET n == gscaler.attempt
           outcome == gscaler.func[n]
           calls == Append(gscaler.calls, FuncCalls[n])
       IN  gscaler' =
             IF outcome = "ok"
             THEN IF FuncCalls[n].shift
                  THEN [gscaler EXCEPT !.calls = calls, !.pc = "done", !.scaled = Some(n),
                                       !.shifted = <<"func">>]
                  ELSE [gscaler EXCEPT !.calls = calls, !.pc = "shift", !.scaled = Some(n)]
             ELSE IF n < 4
                  THEN [gscaler EXCEPT !.calls = calls, !.attempt = n + 1]
                  ELSE [gscaler EXCEPT !.calls = calls, !.pc = "done", !.error = outcome,
                                       !.raised_by = "func"]
    /\ UNCHANGED <<blur, lfmAttr, limit, edge, scaler, dmThr, dmUse, bmat, akarin, color, attempts, ssim, medge, frey>>

\* return self.kernel.shift(scaled, shift)
GenericScalerKernelShift ==
    /\ gscaler.pc = "shift"
    /\ gscaler' =
         IF gscaler.kernel_shift = "ok"
         THEN [gscaler EXCEPT !.pc = "done", !.shifted = Append(@, "kernel.shift")]
         ELSE [gscaler EXCEPT !.pc = "done", !.scaled = None, !.error = gscaler.kernel_shift,
                              !.raised_by = "kernel.shift"]
    /\ UNCHANGED <<blur, lfmAttr, limit, edge, scaler, dmThr, dmUse, bmat, akarin, color, attempts, ssim, medge, frey>>

\* The caller has the clip or the exception.
GenericScalerReturn ==
    /\ gscaler.pc = "done"
    /\ gscaler' = GScalerIdle
    /\ UNCHANGED <<blur, lfmAttr, limit, edge, scaler, dmThr, dmUse, bmat, akarin, color, attempts, ssim, medge, frey>>

(***************************************************************************)
(* vsmask/edge.py: get_mask on one shared FreyChen instance                *)
(*                                                                         *)
(* self._bits is an attribute of the instance; each caller is a thread of   *)
(* the program that is somewhere between the statements of get_mask.       *)
(***************************************************************************)

\* The callers that share the instance.
MaxCallers == 2
Callers == 1..MaxCallers

\* The formats of the clips given to get_mask.
FreyChenClipFormats == {<<"INTEGER", 8>>, <<"INTEGER", 16>>, <<"FLOAT", 32>>}

CallerIdle == [pc |-> "idle", clip |-> None, mask |-> None]

FreyInit == [bits |-> None, caller |-> [t \in Callers |-> CallerIdle]]

\* get_mask up to self._bits = clip.format.bits_per_sample
FreyChenGetMask ==
    \E t \in Callers, fmt \in FreyChenClipFormats :
        /\ frey.caller[t].pc = "idle"
        /\ frey' = [bits |-> Some(fmt[2]),
                    caller |-> [frey.caller EXCEPT ![t] = [pc |-> "compute", clip |-> Some(fmt),
                                                          mask |-> None]]]
        /\ UNCHANGED <<blur, lfmAttr, limit, edge, scaler, dmThr, dmUse, bmat, akarin, color, attempts, ssim, medge, gscaler>>

\* clip_p = self._preprocess(clip), depth(clip, 32); mask =
\* self._compute_mask(clip_p)
FreyChenCompute ==
    \E t \in Callers :
        /\ frey.caller[t].pc = "compute"
        /\ frey' = [frey EXCEPT !.caller[t].pc = "postprocess", !.caller[t].mask = Some(depth(32))]
        /\ UNCHANGED <<blur, lfmAttr, limit, edge, scaler, dmThr, dmUse, bmat, akarin, color, attempts, ssim, medge, gscaler>>

\* mask = self._postprocess(mask): depth(clip, self._bits, ...)
FreyChenPostprocess ==
    \E t \in Callers :
        /\ frey.caller[t].pc = "postprocess"
        /\ frey' = [frey EXCEPT !.caller[t].pc = "done",
                                !.caller[t].mask = Some(depth(Val(frey.bits)))]
        /\ UNCHANGED <<blur, lfmAttr, limit, edge, scaler, dmThr, dmUse, bmat, akarin, color, attempts, ssim, medge, gscaler>>

\* return mask; self._bits stays on the instance.
FreyChenReturn ==
    \E t \in Callers :
        /\ frey.caller[t].pc = "done"
        /\ frey' = [frey EXCEPT !.caller[t] = CallerIdle]
        /\ UNCHANGED <<blur, lfmAttr, limit, edge, scaler, dmThr, dmUse, bmat, akarin, color, attempts, ssim, medge, gscaler>>

(***************************************************************************)
(* Specifications: one per component, each from the state after import.    *)
(***************************************************************************)

Init ==
    /\ blur = BlurIdle
    /\ lfmAttr = LfmAttrInit
    /\ limit = LimitIdle
    /\ edge = EdgeIdle
    /\ scaler = ScalerIdle
    /\ dmThr = DmThrInit
    /\ dmUse = DmUseIdle
    /\ bmat = BMatIdle
    /\ akarin = AkarinIdle
    /\ color = ColorIdle
    /\ attempts = <<>>
    /\ ssim = SsimIdle
    /\ medge = MedgeIdle
    /\ gscaler = GScalerIdle
    /\ frey = FreyInit

NextBlur == BlurCall \/ BlurReturn
SpecBlur == Init /\ [][NextBlur]_vars

NextLimit == LimitFilterModeUse \/ LimitFilterCall \/ LimitFilterReturn
SpecLimit == Init /\ [][NextLimit]_vars

NextEdge == GetMaskCall \/ GetMaskReturn
SpecEdge == Init /\ [][NextEdge]_vars

NextScaler == NoShiftScale \/ NoShiftScaleReturn
SpecScaler == Init /\ [][NextScaler]_vars

NextDescaleMode == DescaleModeUse \/ DescaleModeRead \/ DescaleModeReadReturn
SpecDescaleMode == Init /\ [][NextDescaleMode]_vars

NextBlurMatrix == BlurMatrixCall \/ FromRadiusCall \/ BlurMatrixReturn
SpecBlurMatrix == Init /\ [][NextBlurMatrix]_vars

NextAkarin == AkarinSceneCall \/ AkarinTailCall \/ AkarinReturn
SpecAkarin == Init /\ [][NextAkarin]_vars

NextColor == ResampleCall \/ ResampleBack \/ ResampleReturn
SpecColor == Init /\ [][NextColor]_vars

NextAttempts == FromArgsFirst \/ FromArgsNext \/ AttemptsDrop
SpecAttempts == Init /\ [][NextAttempts]_vars

NextSsim == SsimScaleCall \/ SsimScaleReturn
SpecSsim == Init /\ [][NextSsim]_vars

NextMatrixEdge == ComputeMaskCall \/ ComputeMaskReturn
SpecMatrixEdge == Init /\ [][NextMatrixEdge]_vars

NextGenericScaler ==
    GenericScalerCall \/ GenericScalerAttempt \/ GenericScalerKernelShift \/ GenericScalerReturn
SpecGenericScaler == Init /\ [][NextGenericScaler]_vars

NextFreyChen == FreyChenGetMask \/ FreyChenCompute \/ FreyChenPostprocess \/ FreyChenReturn
SpecFreyChen == Init /\ [][NextFreyChen]_vars

(***************************************************************************)
(* The claims                                                              *)
(***************************************************************************)

\* C1: for a spatial mode and a matrix of more than one coefficient,
\* BlurMatrixBase.__call__ uses std.Convolution exactly when the matrix has at
\* most 25 coefficients, the mode is not SQUARE and the clip is not 16-bit
\* float; otherwise it uses ExprOp.convolution; it never uses
\* std.AverageFrames (nor the expression-based temporal path).
C1_SpatialBackend ==
    (blur.called /\ blur.mode # "TEMPORAL" /\ blur.len > 1) =>
        /\ blur.backend \in {"std.Convolution", "ExprOp.convolution"}
        /\ (blur.backend = "std.Convolution") <=>
               (blur.len <= 25 /\ blur.mode # "SQUARE" /\ blur.fmt # <<"FLOAT", 16>>)
        /\ \A i \in 1..Len(blur.invoked) : blur.invoked[i] = blur.backend

\* C1 witness: a 25-coefficient matrix in a 1-D spatial mode went to std.Convolution.
C1_Witness ==
    /\ blur.called
    /\ blur.mode = "HV"
    /\ blur.len = 25
    /\ blur.backend = "std.Convolution"
    /\ Len(blur.invoked) = MaxPasses

\* C2: for the temporal mode and a matrix of more than one coefficient,
\* BlurMatrixBase.__call__ invokes one backend only: std.AverageFrames if and
\* only if the clip is not 16-bit float, the matrix has at most 31
\* coefficients, bias is None or 0, saturate is true and conv_kwargs is empty
\* or holds only 'scenechange'; otherwise _averageframes_akarin; never
\* std.Convolution.
C2_TemporalBackend ==
    (blur.called /\ blur.mode = "TEMPORAL" /\ blur.len > 1) =>
        /\ blur.backend \in {"std.AverageFrames", "_averageframes_akarin"}
        /\ (blur.backend = "std.AverageFrames") <=>
               /\ blur.fmt # <<"FLOAT", 16>>
               /\ blur.len <= 31
               /\ blur.bias \in {None, Some(0)}
               /\ blur.saturate
               /\ blur.kwkeys \in {{}, {"scenechange"}}
        /\ Len(blur.invoked) >= 1
        /\ Cardinality({blur.invoked[i] : i \in 1..Len(blur.invoked)}) = 1
        /\ \A i \in 1..Len(blur.invoked) : blur.invoked[i] = blur.backend

\* C2 witness: a 31-weight temporal matrix with only 'scenechange' given and a
\* zero bias went to std.AverageFrames.
C2_Witness ==
    /\ blur.called
    /\ blur.mode = "TEMPORAL"
    /\ blur.len = 31
    /\ blur.bias = Some(0)
    /\ blur.kwkeys = {"scenechange"}
    /\ blur.backend = "std.AverageFrames"

\* C3: limit_filter raises ValueError and issues no host call whenever thr,
\* thrc or bright_thr is negative or elast is below 1, in every mode, also
\* where the parameters would otherwise take the 'return src' or 'return flt'
\* exit.
C3_InvalidParamsRejected ==
    (limit.called /\ (limit.thr < 0 \/ limit.thrc < 0 \/ limit.bright_thr < 0
                      \/ limit.elast < 1)) =>
        /\ limit.result = "ValueError"
        /\ limit.hostCalls = <<>>

\* C3 witness: thresholds that would take the 'return src' exit, rejected for
\* an elast below 1.
C3_Witness ==
    /\ limit.called
    /\ limit.thr = 0 /\ limit.thrc = 0 /\ limit.bright_thr = 0
    /\ limit.elast = 0
    /\ limit.result = "ValueError"
    /\ limit.error = "elast"

\* C4: limit_filter raises ValueError whenever ref is None and the mode is not
\* CLAMPING; with parameters that pass the checks, CLAMPING is accepted with
\* and without a ref clip, and it is the only mode accepted without one.
C4_RefRequired ==
    limit.called =>
        LET valid == limit.thr >= 0 /\ limit.thrc >= 0 /\ limit.bright_thr >= 0
                     /\ limit.elast >= 1
        IN  /\ (limit.ref = None /\ limit.mode # "CLAMPING") => limit.result = "ValueError"
            /\ (valid /\ limit.mode = "CLAMPING") => limit.result # "ValueError"
            /\ (valid /\ limit.ref = None /\ limit.result # "ValueError")
                   => limit.mode = "CLAMPING"

\* C4 witness: a call with valid thresholds, no ref and a mode other than
\* CLAMPING was rejected for the missing ref.
C4_Witness ==
    /\ limit.called
    /\ limit.ref = None
    /\ limit.mode = "DIFF_MIN"
    /\ limit.thr = 1 /\ limit.elast = 2
    /\ limit.result = "ValueError"
    /\ limit.error = "ref"

\* C5: thresholding in get_mask, for thresholds lthr <= hthr, on the LUT path
\* and the expression path alike: a value below lthr becomes 0, a value above
\* hthr becomes the range maximum, a value from lthr to hthr inclusive is left
\* unchanged (hthr defaulting to the range maximum).
C5_Thresholding ==
    (edge.called /\ edge.result = "mask") =>
        LET peak == IF edge.fmt[1] = "FLOAT" THEN 1 ELSE 2 ^ edge.fmt[2] - 1
            hthr == IF edge.hthr = None THEN Int2R(peak) ELSE Val(edge.hthr)
            v == edge.mul
        IN  RLeq(edge.lthr, hthr) =>
                /\ RLess(v, edge.lthr) => REq(edge.out, Int2R(0))
                /\ RLess(hthr, v) => REq(edge.out, Int2R(peak))
                /\ (RLeq(edge.lthr, v) /\ RLeq(v, hthr)) => REq(edge.out, v)

\* C6: get_mask runs _preprocess, _compute_mask, _postprocess, then the
\* multiplication (only when multi # 1), then the thresholding (only when
\* lthr > 0 or hthr < peak), which is applied to the multiplied value; on an
\* integer clip the multiplied value is an integer in 0 .. peak, the nearest
\* to the clamped product; with multi = 1, lthr <= 0 and hthr >= peak the
\* postprocessed mask is returned after those three steps alone.
C6_StepOrder ==
    (edge.called /\ edge.result = "mask") =>
        LET peak == IF edge.fmt[1] = "FLOAT" THEN 1 ELSE 2 ^ edge.fmt[2] - 1
            hthr == IF edge.hthr = None THEN Int2R(peak) ELSE Val(edge.hthr)
            mulRuns == ~REq(edge.multi, Int2R(1))
            thrRuns == RLess(Int2R(0), edge.lthr) \/ RLess(hthr, Int2R(peak))
            prod == RMul(edge.x, edge.multi)
            clamped == IF prod[1] < 0 THEN Int2R(0)
                       ELSE IF RLess(Int2R(peak), prod) THEN Int2R(peak) ELSE prod
            dist == edge.mul[1] * clamped[2] - clamped[1]
        IN  /\ edge.steps =
                 <<"_preprocess", "_compute_mask", "_postprocess">>
                 \o (IF mulRuns THEN <<"multiply">> ELSE <<>>)
                 \o (IF thrRuns THEN <<"threshold">> ELSE <<>>)
            /\ ~mulRuns => edge.mul = edge.x
            /\ (mulRuns /\ edge.fmt[1] = "INTEGER") =>
                   /\ edge.mul[2] = 1
                   /\ edge.mul[1] \in 0..peak
                   /\ 2 * dist <= clamped[2] /\ -2 * dist <= clamped[2]
            /\ (mulRuns /\ edge.fmt[1] = "FLOAT") => REq(edge.mul, prod)
            /\ thrRuns => edge.out = (IF RLess(hthr, edge.mul) THEN Int2R(peak)
                                      ELSE IF RLeq(edge.mul, edge.lthr) THEN Int2R(0)
                                      ELSE edge.mul)
            /\ ~thrRuns => edge.out = edge.mul
            /\ (~mulRuns /\ ~thrRuns) => (edge.out = edge.x /\ Len(edge.steps) = 3)

\* C6 witness: on an 8-bit clip a pixel was multiplied by 3/2, clamped to the
\* peak and then thresholded.
C6_Witness ==
    /\ edge.called
    /\ edge.fmt = <<"INTEGER", 8>>
    /\ edge.multi = <<3, 2>>
    /\ edge.x = Int2R(200)
    /\ edge.mul = Int2R(255)
    /\ edge.steps = <<"_preprocess", "_compute_mask", "_postprocess", "multiply",
                      "threshold">>

\* C7: whatever shift the caller gives NoShift.scale, the underlying kernel's
\* scale is invoked with shift (0, 0).
C7_ShiftAlwaysZero ==
    scaler.called => scaler.kernelArgs.shift = <<0, 0>>

\* C8: when the kernel's scale call raises, the exception reaches the caller
\* of NoShiftBase.scale; no substitute result is returned.
C8_HostErrorPropagates ==
    (scaler.called /\ scaler.host # "ok") => scaler.result = "raised"

\* C9: after any earlier uses of LimitFilterMode members, a limit_filter call
\* given the bare member CLAMPING reads force_expr = True, the class default.
C9_BareClampingReadsDefault ==
    (limit.called /\ limit.form = Bare /\ limit.mode = "CLAMPING"
     /\ limit.read # None) =>
        Val(limit.read) = TRUE

\* C10: after any earlier calls DescaleMode.X(thr), the thr read from a bare
\* member (one not called in the current use) is the default 5e-8.
C10_BareReadsDefaultThr ==
    (dmUse.called /\ dmUse.form = Bare) => dmUse.read = DescaleModeMetaThr

\* C11: with taps None, BlurMatrix.GAUSS uses the tap count derived from sigma,
\* ceil(|sigma| * 8 + 1) // 2, and for sigma > 0 in a 1-D mode returns
\* 2 * taps + 1 coefficients with that derived taps; from_radius(radius)
\* returns 2 * (ceil((radius + 1) / 3 * 8 + 1) // 2) + 1 coefficients; an
\* explicit negative taps raises CustomValueError.
C11_GaussDerivedTaps ==
    (bmat.called /\ bmat.member = "GAUSS") =>
        LET derived == Ceil(RAdd(RMul(RAbs(bmat.sigma), Int2R(8)), Int2R(1))) \div 2
        IN  /\ bmat.taps = None =>
                /\ bmat.out.error = NoError
                /\ bmat.out.taps = derived
                /\ (RLess(Int2R(0), bmat.sigma) /\ bmat.mode # "SQUARE") =>
                       Len(bmat.out.kernel) = 2 * derived + 1
            /\ bmat.via = "from_radius" =>
                Len(bmat.out.kernel) =
                    2 * (Ceil(RAdd(RMul(<<Val(bmat.radius) + 1, 3>>, Int2R(8)), Int2R(1))) \div 2) + 1
            /\ (bmat.taps # None /\ Val(bmat.taps) < 0) =>
                bmat.out.error = "CustomValueError"

\* The binomial coefficient C(n, k), by Pascal's rule.
RECURSIVE Choose(_, _)
Choose(n, k) == IF k = 0 \/ k = n THEN 1 ELSE Choose(n - 1, k - 1) + Choose(n - 1, k)

\* C12: BlurMatrix.BINOMIAL(taps), taps >= 0, returns in a 1-D mode the
\* 2 * taps + 1 binomial coefficients C(2 * taps, k), k = 0 .. 2 * taps: every
\* integer division of the recurrence is exact, the kernel is symmetric and
\* sums to 4^taps; in SQUARE mode it returns the flattened outer product of
\* that sequence with itself, (2 * taps + 1)^2 coefficients.
C12_BinomialCoefficients ==
    (bmat.called /\ bmat.member = "BINOMIAL" /\ bmat.out.taps >= 0) =>
        LET t == bmat.out.taps
            n == 2 * t + 1
            k == bmat.out.kernel
        IN  /\ bmat.out.error = NoError
            /\ \A i \in 1..Len(bmat.out.rems) : bmat.out.rems[i] = 0
            /\ bmat.mode # "SQUARE" =>
                /\ Len(k) = n
                /\ \A i \in 1..n : k[i] = Choose(2 * t, i - 1)
                /\ \A i \in 1..n : k[i] = k[n + 1 - i]
                /\ SeqSum(k) = 4 ^ t
            /\ bmat.mode = "SQUARE" =>
                /\ Len(k) = n * n
                /\ \A i \in 1..n, j \in 1..n :
                       k[(i - 1) * n + j] = Choose(2 * t, i - 1) * Choose(2 * t, j - 1)

C12_Witness ==
    /\ bmat.called /\ bmat.member = "BINOMIAL" /\ bmat.mode = "SQUARE"
    /\ bmat.taps = Some(3)
    /\ bmat.out.kernel[25] = 400

\* The operators of a token list, numbers and range tokens left out.
OpsOf(expr) == SelectSeq(expr, LAMBDA tok : tok[1] = "op")

\* C13: the scene-change expression of _averageframes_akarin divides the
\* weighted sum by divisor when one is given (a divisor of 0 is the host's
\* "not given") and by the sum of the coefficients otherwise, and applies the
\* steps in the order premultiply, divide, add bias, absolute value when
\* saturate is False, multiply, clamp.
C13_TailOrder ==
    (akarin.called /\ akarin.out.backend = "expr") =>
        LET kw == akarin.kw
            pre == IF Truthy(kw.premultiply) THEN RMul(akarin.out.sum, Int2R(Val(kw.premultiply)))
                   ELSE akarin.out.sum
            div == RDiv(pre, IF Truthy(kw.divisor) THEN Int2R(Val(kw.divisor))
                             ELSE Int2R(SeqSum(akarin.self)))
            biased == IF Truthy(kw.bias) THEN RAdd(div, Int2R(Val(kw.bias))) ELSE div
            abs == IF kw.saturate THEN biased ELSE RAbs(biased)
            mul == IF Truthy(kw.multiply) THEN RMul(abs, Int2R(Val(kw.multiply))) ELSE abs
            clamped == IF kw.clamp THEN RMin(RMax(mul, Int2R(0)), Int2R(255)) ELSE mul
        IN  /\ REq(akarin.out.value, clamped)
            /\ OpsOf(akarin.out.tail) =
                   (IF Truthy(kw.premultiply) THEN <<Op("MUL")>> ELSE <<>>)
                   \o <<Op("DIV")>>
                   \o (IF Truthy(kw.bias) THEN <<Op("ADD")>> ELSE <<>>)
                   \o (IF kw.saturate THEN <<>> ELSE <<Op("ABS")>>)
                   \o (IF Truthy(kw.multiply) THEN <<Op("MUL")>> ELSE <<>>)
                   \o (IF kw.clamp THEN <<Op("MAX"), Op("MIN")>> ELSE <<>>)

C13_Witness ==
    /\ akarin.called /\ akarin.out.backend = "expr"
    /\ akarin.kw.premultiply = Some(2) /\ akarin.kw.divisor = Some(8)
    /\ akarin.kw.bias = Some(-300) /\ ~akarin.kw.saturate
    /\ akarin.kw.multiply = Some(3) /\ akarin.kw.clamp
    /\ akarin.pix = <<100, 255, 30>> /\ akarin.self = <<1, 2, 1>> /\ akarin.next = {}
    /\ REq(akarin.out.value, Int2R(255))

\* The frames whose property cuts frame f off from the centre frame c: for a
\* previous frame, a _SceneChangeNext on one of the frames f .. c - 1; for a
\* next frame, a _SceneChangePrev on one of the frames c + 1 .. f.
BeyondSceneChange(f, c, next, prev) ==
    IF f < c THEN \E g \in f..(c - 1) : g \in next
    ELSE \E g \in (c + 1)..f : g \in prev

\* C20: in the scene-change expression a previous frame at offset -k
\* contributes its weighted value only if none of the frames at offsets
\* -k .. -1 carries _SceneChangeNext, a next frame at offset +k only if none
\* of the frames at offsets +1 .. +k carries _SceneChangePrev; a frame beyond
\* a scene change contributes 0, and the sum is these contributions plus the
\* centre frame weighted by its own weight and the weights of the frames
\* that contribute nothing.
C20_SceneChangeContributions ==
    (akarin.called /\ akarin.out.backend = "expr") =>
        LET self == akarin.self
            L == Len(self)
            c == (L \div 2) + 1
            others == (1..L) \ {c}
            contribution(f) ==
                IF BeyondSceneChange(f, c, akarin.next, akarin.prev) THEN 0
                ELSE self[f] * akarin.pix[f]
            contributions == [f \in 1..L |-> IF f = c THEN 0 ELSE contribution(f)]
            handed == [f \in 1..L |-> IF f # c /\ contribution(f) = 0 THEN self[f] ELSE 0]
        IN  /\ \A f \in others : REq(akarin.out.conds[f], Int2R(contribution(f)))
            /\ REq(akarin.out.sum,
                   Int2R(SeqSum(contributions)
                         + akarin.pix[c] * (self[c] + SeqSum(handed))))

C20_Witness ==
    /\ akarin.called /\ akarin.out.backend = "expr"
    /\ akarin.self = <<1, 2, 3, 4, 5>> /\ akarin.pix = <<2, 2, 2, 2, 2>>
    /\ akarin.next = {2} /\ akarin.prev = {5}
    /\ akarin.out.conds[1] = Int2R(0) /\ akarin.out.conds[4] # Int2R(0)
    /\ REq(akarin.out.sum, Int2R(30))

\* The product of two 3x3 matrices of fractions, row by row.
MatMul(a, b) ==
    [i \in 1..9 |->
        LET row == ((i - 1) \div 3) + 1
            col == ((i - 1) % 3) + 1
        IN  RAdd(RAdd(RMul(a[3 * row - 2], b[col]), RMul(a[3 * row - 1], b[3 + col])),
                 RMul(a[3 * row], b[6 + col]))]

IsIdentity(m) == \A i \in 1..9 : REq(m[i], Int2R(IF i \in {1, 5, 9} THEN 1 ELSE 0))

RowSum(m, row) == RAdd(RAdd(m[3 * row - 2], m[3 * row - 1]), m[3 * row])

\* C14: for ResampleYCgCo, ResampleYCgCoR, ResampleOPPBM3D and
\* ResampleOPPBM3DS, matrix_csp2rgb is the inverse of matrix_rgb2csp (the
\* product is the identity in both orders), a pixel converted by one method
\* and back by the other has its values again, and in matrix_rgb2csp the
\* first row sums to 1 and the other two rows to 0.
C14_MatricesInverse ==
    (color.stage # "idle" /\ color.cls \in MatrixClasses) =>
        /\ IsIdentity(MatMul(matrix_csp2rgb(color.cls), matrix_rgb2csp(color.cls)))
        /\ IsIdentity(MatMul(matrix_rgb2csp(color.cls), matrix_csp2rgb(color.cls)))
        /\ REq(RowSum(matrix_rgb2csp(color.cls), 1), Int2R(1))
        /\ REq(RowSum(matrix_rgb2csp(color.cls), 2), Int2R(0))
        /\ REq(RowSum(matrix_rgb2csp(color.cls), 3), Int2R(0))
        /\ color.stage = "restored" =>
               \A p \in 1..3 : REq(color.out.px[p], color.src.px[p])

C14_Witness ==
    /\ color.stage = "restored" /\ color.cls = "ResampleOPPBM3D" /\ color.method = "rgb2csp"
    /\ color.src.px = <<Int2R(1), Int2R(0), Int2R(2)>>
    /\ REq(color.out.px[3], Int2R(2))

\* C15: the fp32 argument of the direct conversions selects the output sample
\* format for every input format: None keeps the input clip's format, False
\* gives integer 16-bit, True gives float 32-bit.
C15_Fp32SelectsFormat ==
    color.stage = "converted" =>
        color.out.fmt = (IF color.fp32 = None THEN color.src.fmt
                         ELSE IF Val(color.fp32) THEN <<"FLOAT", 32>>
                         ELSE <<"INTEGER", 16>>)

\* C16: DescaleAttempt.from_args builds a consistent round-trip record:
\* descaled is the clip descaled by the given kernel to (width, height),
\* rescaled is descaled upscaled again by the same kernel to the source
\* clip's width and height, diff is the absolute difference of rescaled and
\* the source clip, resolution is (width, height), diff always carries the
\* PlaneStatsPAvg statistics, and it carries the PlaneStatsKDiff statistics
\* exactly when mode is KernelDiff, KernelDiffMin or KernelDiffMax.
C16_RoundTripRecord ==
    \A i \in 1..Len(attempts) :
        LET a == attempts[i].args
            o == attempts[i].out
        IN  /\ o.descaled.op = "descale" /\ o.descaled.of = a.clip
            /\ o.descaled.kernel = a.kernel
            /\ o.descaled.width = a.width /\ o.descaled.height = a.height
            /\ o.rescaled.op = "scale" /\ o.rescaled.of = o.descaled
            /\ o.rescaled.kernel = a.kernel
            /\ o.rescaled.width = a.clip.width /\ o.rescaled.height = a.clip.height
            /\ o.diff.expr = "x y - abs" /\ o.diff.x = o.rescaled /\ o.diff.y = a.clip
            /\ o.resolution = <<a.width, a.height>>
            /\ <<"PlaneStatsPAvg", "Average">> \in o.diff.props
            /\ (<<"PlaneStatsKDiff", "Diff">> \in o.diff.props)
                   <=> (a.mode \in {"KernelDiff", "KernelDiffMin", "KernelDiffMax"})

C16_Witness ==
    /\ Len(attempts) = 2
    /\ attempts[2].args.mode = "KernelDiffMin"
    /\ attempts[2].args.width = 11 /\ attempts[2].args.height = 1
    /\ attempts[2].out.rescaled.width = 20 /\ attempts[2].out.rescaled.height = 12
    /\ <<"PlaneStatsKDiff", "Diff">> \in attempts[2].out.diff.props

\* C17: da_hash identifies the descale attempt: two records built by
\* from_args have equal da_hash only if they were built with the same width,
\* the same height and the same kernel (class and parameters).
C17_HashIdentifiesAttempt ==
    \A i, j \in 1..Len(attempts) :
        attempts[i].out.da_hash = attempts[j].out.da_hash =>
            /\ attempts[i].args.width = attempts[j].args.width
            /\ attempts[i].args.height = attempts[j].args.height
            /\ attempts[i].args.kernel = attempts[j].args.kernel

\* C18: SSIM.scale selects its smoothing filter from the effective smooth
\* value, the instance field when that is not None and otherwise the call
\* argument: a callable is the smoother itself, an int selects box_blur with
\* that radius, a float selects gauss_blur with that sigma, with nothing
\* supplied it is gauss_blur with sigma ((3^2 - 1) / 12)^0.5, and every
\* smoothing step of the call uses that one filter (all six of them when
\* the host accepts the merge expression, the first three when it does not).
C18_SmoothSelectsFilter ==
    ssim.called =>
        LET eff == IF ssim.self.smooth # None THEN Val(ssim.self.smooth)
                   ELSE IF ssim.smooth # None THEN Val(ssim.smooth)
                   ELSE [type |-> "float", val |-> "((3 ** 2 - 1) / 12) ** 0.5"]
            want == CASE eff.type = "callable" -> [func |-> eff.val, kw |-> "", val |-> ""]
                      [] eff.type = "int" -> [func |-> "box_blur", kw |-> "radius", val |-> eff.val]
                      [] eff.type = "float" -> [func |-> "gauss_blur", kw |-> "sigma", val |-> eff.val]
        IN  /\ ssim.out.error \in {NoError, "vs.Error"}
            /\ ssim.out.filter_func = Some(want)
            /\ Len(ssim.out.smoothed) = (IF ssim.out.error = NoError THEN 6 ELSE 3)
            /\ \A i \in 1..Len(ssim.out.smoothed) : ssim.out.smoothed[i].by = want

C18_Witness ==
    /\ ssim.called
    /\ ssim.self.smooth = Some([type |-> "int", val |-> "1"])
    /\ ssim.smooth = Some([type |-> "callable", val |-> "min_blur"])
    /\ Len(ssim.out.smoothed) = 6
    /\ ssim.out.smoothed[6] = [clip |-> "t", by |-> [func |-> "box_blur", kw |-> "radius", val |-> "1"]]

\* C19: every convolution matrix of every MatrixEdgeDetect operator has the
\* size its class docstring states: 9 coefficients where the docstring says
\* 3x3, 25 where it says 5x5.
C19_MatrixSizeAsDocumented ==
    medge.called =>
        /\ Len(medge.convolutions) = Len(matrices(medge.cls))
        /\ \A i \in 1..Len(medge.convolutions) :
               Len(medge.convolutions[i].matrix) = DocstringSize(medge.cls)

\* C21: GenericScaler.scale tries the wrapped function in a fixed order:
\* positional with shift, keyword with shift (both only when shift is not
\* (0, 0)), positional without shift, keyword without shift. It stops at the
\* first attempt that does not raise; the result of a with-shift attempt is
\* returned without kernel.shift, the result of a without-shift attempt goes
\* through kernel.shift, so the shift is applied once; of the exceptions the
\* function raises only that of the last attempt reaches the caller.
C21_AttemptOrder ==
    LET first == IF gscaler.shift # <<0, 0>> THEN 1 ELSE 3
        n == Len(gscaler.calls)
    IN  /\ \A i \in 1..n : gscaler.calls[i] = FuncCalls[first + i - 1]
        /\ \A i \in 1..(n - 1) : gscaler.func[first + i - 1] # "ok"
        /\ (gscaler.pc = "done" /\ gscaler.error = NoError) =>
               /\ gscaler.func[first + n - 1] = "ok"
               /\ gscaler.scaled = Some(first + n - 1)
               /\ Len(gscaler.shifted) = 1
               /\ gscaler.shifted[1] =
                      (IF gscaler.calls[n].shift THEN "func" ELSE "kernel.shift")
        /\ (gscaler.pc = "done" /\ gscaler.raised_by = "func") =>
               /\ gscaler.calls[n] = FuncCalls[4]
               /\ gscaler.error = gscaler.func[4]
        /\ gscaler.pc = "shift" => (gscaler.func[first + n - 1] = "ok" /\ ~gscaler.calls[n].shift)

C21_Witness ==
    /\ gscaler.pc = "done" /\ gscaler.shift = <<1, 0>>
    /\ gscaler.func = <<"BaseException", "Exception", "Exception", "ok">>
    /\ Len(gscaler.calls) = 4
    /\ gscaler.shifted = <<"kernel.shift">>

\* C22: for every SSIM instance, one with default field values included,
\* the text in the epsilon position of the merge expression SSIM.scale gives
\* the host is a number, on the akarin and on the plain variant, and the two
\* variants compute the same value.
C22_EpsilonIsNumber ==
    ssim.called =>
        /\ ParseNumber(ssim.out.merge_expr[2]) # None
        /\ ssim.out.r.error = NoError
        /\ \A aka \in BOOLEAN :
               LET other == expr_func(ssim.px, merge_expr_tokens(aka, ssim.self.epsilon))
               IN  /\ other.error = NoError
                   /\ REq(Val(other.value), Val(ssim.out.r.value))

\* C23: for any sequence or interleaving of get_mask calls on one shared
\* FreyChen instance with clips of different bit depths, each returned mask
\* has the bit depth of the clip passed to that same call.
C23_MaskHasOwnBits ==
    \A t \in Callers :
        frey.caller[t].pc = "done" =>
            Val(frey.caller[t].mask)[2] = Val(frey.caller[t].clip)[2]

====
